---- MODULE Spec2Model ----
(***************************************************************************)
(* SSHplex: the tmux session manager (sshplex/lib/multiplexer/tmux.py).    *)
(*                                                                         *)
(* The state is the TmuxManager object (session, current_window, windows,  *)
(* panes, current_window_pane_count, max_panes_per_window) together with   *)
(* the tmux server it drives through libtmux.  Every public method is one  *)
(* action; the driver calls a method makes are recorded in `calls`, the    *)
(* method and its return value in `lastCall`.                              *)
(* The broadcast methods act on the synchronize-panes option the server    *)
(* keeps per window (server.sync).  SSHplexConnector.connect_to_hosts, the  *)
(* caller of these methods in main.py, advances in `connector`; `closed`    *)
(* remembers the topology the last successful close_session destroyed.      *)
(* tui_mode (main.py) runs the connector and attaches; AnsibleProvider's    *)
(* get_hosts (lib/sot/ansible.py) works on `provider`, the HostSelector     *)
(* handlers (lib/ui/host_selector.py) on `selector`.                        *)
(*                                                                         *)
(* A method is written as an operator from a "world" (manager + server +   *)
(* calls issued so far) to the SET of worlds it can end in: one element    *)
(* per combination of driver outcomes ("ok", "raise", "none").             *)
(***************************************************************************)
EXTENDS Integers, Sequences, FiniteSets, TLC

VARIABLES
    session,                    \* self.session: session handle or NoHandle
    current_window,             \* self.current_window: window handle or NoHandle
    windows,                    \* self.windows: window index -> window handle
    panes,                      \* self.panes: host key -> pane <<window, pane index>>
    current_window_pane_count,  \* self.current_window_pane_count
    max_panes_per_window,       \* self.max_panes_per_window
    server,                     \* the tmux server behind libtmux.Server()
    calls,                      \* driver calls issued by the last method call
    lastCall,                   \* the last method call and what it returned
    closed,                     \* what the last successful close_session destroyed
    connector,                  \* SSHplexConnector.connect_to_hosts in progress
    broadcast_enabled,          \* TmuxSessionManager.broadcast_enabled (session_manager.py)
    threads,                    \* create_pane calls in progress on threads of their own
    provider,                   \* AnsibleProvider: loaded inventories, get_hosts result
    selector                    \* HostSelector: hosts, filter, selection, exit value
                                \* (and the selection before the last handler)

vars == <<session, current_window, windows, panes, current_window_pane_count,
          max_panes_per_window, server, calls, lastCall, closed, connector,
          broadcast_enabled, threads, provider, selector>>

----------------------------------------------------------------------------
(* Bounds *)

MaxCap == 2          \* capacities 1..MaxCap are tried
MaxHosts == 1        \* host keys 1..MaxHosts in the general specification
MaxWindows == 2      \* window ids the server hands out over one run
MaxDrvPanes == 2     \* panes a tmux window holds before "no space for new pane"
MaxGreedy == 5       \* host keys 1..MaxGreedy in the failure-free specification
MaxGreedyWindows == 3 \* window ids handed out in the failure-free specification
MaxFaults == 2       \* failures the driver injects over one run, "no space" apart
MaxSessionHosts == 6 \* hosts placed in one session of the broadcast specification
MaxSessionWindows == 3 \* window ids handed out in the broadcast specification
MaxBatch == 3        \* hosts of one connect_to_hosts call
MaxWindowHosts == 2  \* host keys 1..MaxWindowHosts in the window-mode specification
MaxModeWindows == 3  \* window ids handed out in the window-mode specification
MaxThreadCalls == 1  \* create_pane calls each of the two threads makes
MaxThreadWindows == 2 \* window ids handed out in the specification of the threads
MaxInventories == 2 \* inventory files loaded by the Ansible provider
MaxEntries == 2 \* hostvars entries of one inventory
MaxLoaded == 2 \* hosts the selector has loaded

Hosts == 1..MaxHosts
GreedyHosts == 1..MaxGreedy
WindowHosts == 1..MaxWindowHosts

(* None, for a session or window handle; real handles are 1, 2, ... *)
NoHandle == 0
(* None, for a pane *)
NoPane == <<0, 0>>

AllOutcomes == {"ok", "raise", "none"}
NoFailure == {"ok"}

----------------------------------------------------------------------------
(* Small helpers *)

Put(f, k, v) == [x \in DOMAIN f \cup {k} |-> IF x = k THEN v ELSE f[x]]

Empty == <<>>

Call(name, site, win, pane, arg, res) ==
    [call |-> name, site |-> site, win |-> win, pane |-> pane, arg |-> arg, res |-> res]

Issue(w, c) == [w EXCEPT !.calls = Append(@, c)]

Ret(w, value) == [w |-> w, ret |-> value]

(* The tmux server: the session of our name (if any), its windows with the *)
(* number of panes each holds, the window the session has attached, the    *)
(* next window id, the number of failures the driver has injected, and the *)
(* synchronize-panes option of the windows that have it set.               *)
NoServerSession(nextWin, faults) ==
    [session |-> NoHandle, windows |-> Empty, attached |-> NoHandle,
     nextWin |-> nextWin, faults |-> faults, sync |-> Empty]

FreshServerSession(nextWin, faults) ==
    [session |-> nextWin, windows |-> Put(Empty, nextWin, 1), attached |-> nextWin,
     nextWin |-> nextWin + 1, faults |-> faults, sync |-> Empty]

(* a session of our name that exists before the manager does: one window   *)
(* of n panes *)
ExistingServerSession(n) ==
    [session |-> 1, windows |-> Put(Empty, 1, n), attached |-> 1,
     nextWin |-> 2, faults |-> 0, sync |-> Empty]

----------------------------------------------------------------------------
(* The driver (libtmux).  Each operator returns the set of results of one   *)
(* call: the world after it (the call appended to w.calls), the outcome res *)
(* and the value returned.  A call the server can serve (can) succeeds or,  *)
(* while fewer than MaxFaults failures were injected, fails in one of the   *)
(* ways `kinds`; a call the server cannot serve raises.  Only outcomes in   *)
(* w.allow are produced.                                                    *)

Outcomes(w, can, kinds) ==
    IF can
    THEN ({"ok"} \cup (IF w.server.faults < MaxFaults THEN kinds ELSE {})) \cap w.allow
    ELSE {"raise"} \cap w.allow

(* the world after a call with outcome o that leaves the server as it is *)
Done(w, can, o, c) ==
    Issue(IF can /\ o # "ok" THEN [w EXCEPT !.server.faults = @ + 1] ELSE w, c)

has_session(w, site) ==
    { [w |-> Done(w, TRUE, o, Call("has_session", site, 0, 0, "", o)), res |-> o,
       val |-> (o = "ok" /\ w.server.session # NoHandle)]
      : o \in Outcomes(w, TRUE, {"raise"}) }

sessions_get(w, site) ==
    LET can == w.server.session # NoHandle
    IN { [w |-> Done(w, can, o, Call("sessions.get", site, 0, 0, "", o)), res |-> o,
          hnd |-> IF o = "ok" THEN w.server.session ELSE NoHandle]
         : o \in Outcomes(w, can, {"raise"}) }

new_session(w, site) ==
    LET can == w.server.session = NoHandle /\ w.server.nextWin <= w.maxWin
    IN { [w |-> IF o = "ok"
                THEN Issue([w EXCEPT !.server =
                                FreshServerSession(w.server.nextWin, w.server.faults)],
                           Call("new_session", site, 0, 0, "sshplex", o))
                ELSE Done(w, can, o, Call("new_session", site, 0, 0, "sshplex", o)),
          res |-> o,
          hnd |-> IF o = "ok" THEN w.server.nextWin ELSE NoHandle]
         : o \in Outcomes(w, can, {"raise", "none"}) }

attached_window(w, site) ==
    LET can == w.server.attached # NoHandle
    IN { [w |-> Done(w, can, o, Call("attached_window", site, 0, 0, "", o)), res |-> o,
          hnd |-> IF o = "ok" THEN w.server.attached ELSE NoHandle]
         : o \in Outcomes(w, can, {"raise", "none"}) }

new_window(w, site, name) ==
    LET can == w.server.session # NoHandle /\ w.server.nextWin <= w.maxWin
        id  == w.server.nextWin
    IN { [w |-> IF o = "ok"
                THEN Issue([w EXCEPT !.server.windows = Put(@, id, 1),
                                     !.server.attached = id,
                                     !.server.nextWin = id + 1],
                           Call("new_window", site, id, 0, name, o))
                ELSE Done(w, can, o, Call("new_window", site, 0, 0, name, o)),
          res |-> o,
          hnd |-> IF o = "ok" THEN id ELSE NoHandle]
         : o \in Outcomes(w, can, {"raise", "none"}) }

(* window.attached_pane: the active pane of the window, any of its panes *)
attached_pane(w, site, win) ==
    LET can == win \in DOMAIN w.server.windows
    IN { [w |-> Issue(w, Call("attached_pane", site, win, k, "", "ok")), res |-> "ok",
          pane |-> <<win, k>>]
         : k \in IF can /\ "ok" \in w.allow
                 THEN 0..(w.server.windows[win] - 1) ELSE {} }
       \cup
       { [w |-> Done(w, can, o, Call("attached_pane", site, win, 0, "", o)), res |-> o,
          pane |-> NoPane]
         : o \in Outcomes(w, can, {"raise", "none"}) \ {"ok"} }

(* window.split_window: a window has room for MaxDrvPanes panes            *)
split_window(w, site, win, vertical) ==
    LET can == win \in DOMAIN w.server.windows
               /\ w.server.windows[win] < MaxDrvPanes
        k   == IF can THEN w.server.windows[win] ELSE 0
        dir == IF vertical THEN "vertical" ELSE "horizontal"
    IN { [w |-> IF o = "ok"
                THEN Issue([w EXCEPT !.server.windows[win] = k + 1],
                           Call("split_window", site, win, k, dir, o))
                ELSE Done(w, can, o, Call("split_window", site, win, 0, dir, o)),
          res |-> o,
          pane |-> IF o = "ok" THEN <<win, k>> ELSE NoPane]
         : o \in Outcomes(w, can, {"raise", "none"}) }

resize_window(w, site, win) ==
    { [w |-> Done(w, TRUE, o, Call("resize_window", site, win, 0, "80x200", o)),
       res |-> o]
      : o \in Outcomes(w, TRUE, {"raise"}) }

select_layout(w, site, win) ==
    { [w |-> Done(w, TRUE, o, Call("select_layout", site, win, 0, "tiled", o)),
       res |-> o]
      : o \in Outcomes(w, TRUE, {"raise"}) }

send_keys(w, site, pane, what) ==
    { [w |-> Done(w, TRUE, o, Call("send_keys", site, pane[1], pane[2], what, o)),
       res |-> o]
      : o \in Outcomes(w, TRUE, {"raise"}) }

kill_session(w, site) ==
    LET can == w.server.session # NoHandle
    IN { [w |-> IF o = "ok"
                THEN Issue([w EXCEPT !.server =
                                NoServerSession(w.server.nextWin, w.server.faults)],
                           Call("kill_session", site, 0, 0, "", o))
                ELSE Done(w, can, o, Call("kill_session", site, 0, 0, "", o)),
          res |-> o]
         : o \in Outcomes(w, can, {"raise"}) }

(* len(window.panes): the panes the server holds for the window *)
window_panes(w, win) ==
    IF win \in DOMAIN w.server.windows THEN w.server.windows[win] ELSE 0

(* window.panes as create_window reads it (line 160): the list may come    *)
(* back empty ("none") *)
window_panes_list(w, site, win) ==
    LET can == win \in DOMAIN w.server.windows
    IN { [w |-> Done(w, can, o, Call("panes", site, win, 0, "", o)), res |-> o,
          n |-> IF o = "ok" THEN w.server.windows[win] ELSE 0]
         : o \in Outcomes(w, can, {"raise", "none"}) }

(* window.cmd('set-window-option', 'synchronize-panes', value) *)
set_window_option(w, site, win, value) ==
    LET can == win \in DOMAIN w.server.windows
    IN { [w |-> IF o = "ok"
                THEN Issue([w EXCEPT !.server.sync = Put(@, win, value)],
                           Call("set-window-option", site, win, 0, value, o))
                ELSE Done(w, can, o, Call("set-window-option", site, win, 0, value, o)),
          res |-> o]
         : o \in Outcomes(w, can, {"raise"}) }

(* window.cmd('show-window-options', '-v', 'synchronize-panes'): stdout is  *)
(* empty while the option is unset                                          *)
show_window_options(w, site, win) ==
    LET can == win \in DOMAIN w.server.windows
        val == IF win \in DOMAIN w.server.sync THEN w.server.sync[win] ELSE ""
    IN { [w |-> Done(w, can, o, Call("show-window-options", site, win, 0,
                                     IF o = "ok" THEN val ELSE "", o)),
          res |-> o,
          stdout |-> IF o = "ok" THEN val ELSE ""]
         : o \in Outcomes(w, can, {"raise"}) }

(* server.find_where({"session_name": name}): the session or None *)
find_where(w, site) ==
    { [w |-> Done(w, TRUE, o, Call("find_where", site, 0, 0, "", o)), res |-> o,
       hnd |-> IF o = "ok" THEN w.server.session ELSE NoHandle]
      : o \in Outcomes(w, TRUE, {"raise"}) }

----------------------------------------------------------------------------
(* TmuxManager.create_session *)

(* lines 47-56: the session has been assigned; adopt its attached window *)
AdoptWindow(w) ==
    IF w.session = NoHandle
    THEN {Ret(w, FALSE)}
    ELSE UNION {
           IF r.res = "raise"
           THEN {Ret(r.w, FALSE)}
           ELSE IF r.hnd # NoHandle
           THEN {Ret([r.w EXCEPT !.current_window = r.hnd,
                                 !.windows = Put(@, 0, r.hnd),
                                 !.count = 0], TRUE)}
           ELSE {Ret([r.w EXCEPT !.current_window = NoHandle], TRUE)}
           : r \in attached_window(w, 49) }

(* create_session without the has_session test: always new_session *)
create_session_always_new(w0) ==
    UNION {
      IF r1.res = "raise"
      THEN {Ret(r1.w, FALSE)}
      ELSE UNION {
             IF r2.res = "raise"
             THEN {Ret(r2.w, FALSE)}
             ELSE AdoptWindow([r2.w EXCEPT !.session = r2.hnd])
             : r2 \in new_session(r1.w, 41) }
      : r1 \in has_session(w0, 36) }

create_session(w0) ==
    UNION {
      IF r1.res = "raise"
      THEN {Ret(r1.w, FALSE)}
      ELSE UNION {
             IF r2.res = "raise"
             THEN {Ret(r2.w, FALSE)}
             ELSE AdoptWindow([r2.w EXCEPT !.session = r2.hnd])
             : r2 \in IF r1.val THEN sessions_get(r1.w, 38) ELSE new_session(r1.w, 41) }
      : r1 \in has_session(w0, 36) }

----------------------------------------------------------------------------
(* TmuxManager.create_pane *)

(* the capacity test off by one: > for >= *)
NeedsNewWindowLate(w) == w.count > w.cap

(* line 74: the test that opens a new window *)
NeedsNewWindow(w) == w.count >= w.cap

(* the window index off by one *)
NextWindowIndexSkip(w) == Cardinality(DOMAIN w.windows) + 1

(* line 76: window_index = len(self.windows) *)
NextWindowIndex(w) == Cardinality(DOMAIN w.windows)

(* the parity the wrong way round *)
SplitOrientationInverted(count) == count % 2 = 1

(* line 103: vertical_split = (count % 2 == 0) *)
SplitOrientation(count) == count % 2 = 0

(* a failure swallowed: create_pane returns True all the same *)
FailedSilently(w) == Ret(w, TRUE)

(* lines 141-143: an exception anywhere in create_pane returns False *)
Failed(w) == Ret(w, FALSE)

(* lines 73-87: ensure_window_available(); exc = new_window raised *)
ensure_window_available(w) ==
    IF NeedsNewWindow(w)
    THEN IF w.session # NoHandle
         THEN { IF r.res = "raise"
                THEN [w |-> r.w, exc |-> TRUE]
                ELSE IF r.hnd # NoHandle
                THEN [w |-> [r.w EXCEPT !.current_window = r.hnd,
                                        !.windows = Put(@, NextWindowIndex(w), r.hnd),
                                        !.count = 0],
                      exc |-> FALSE]
                ELSE [w |-> r.w, exc |-> FALSE]
                : r \in new_window(w, 78, "sshplex-index") }
         ELSE {[w |-> w, exc |-> FALSE]}
    ELSE {[w |-> w, exc |-> FALSE]}

(* The result of one attempt to get a pane: ok = a pane was returned;      *)
(* otherwise the attempt raised or returned None (lines 99-100, 120-121).  *)
Got(r) == [w |-> r.w, ok |-> r.res = "ok", pane |-> r.pane]

(* the handler trying the last split once more when it fails *)
NewWindowFallbackRetry(w) ==
    UNION {
      IF e.exc
      THEN {[w |-> e.w, ok |-> FALSE, pane |-> NoPane]}
      ELSE UNION {
             IF r3.res = "ok"
             THEN {Got(r3)}
             ELSE { Got(r4) : r4 \in split_window(r3.w, 118, r3.w.current_window, TRUE) }
             : r3 \in split_window(e.w, 118, e.w.current_window, TRUE) }
      : e \in ensure_window_available(w) }

(* lines 113-118: the handler of the second failure *)
NewWindowFallback(w) ==
    UNION {
      IF e.exc
      THEN {[w |-> e.w, ok |-> FALSE, pane |-> NoPane]}
      ELSE { Got(r3) : r3 \in split_window(e.w, 118, e.w.current_window, TRUE) }
      : e \in ensure_window_available(w) }

(* the handler re-tiling the window between the resize and the retry *)
ResizeFallbackRelayout(w, vertical) ==
    UNION {
      IF rz.res = "raise"
      THEN NewWindowFallback(rz.w)
      ELSE UNION {
             UNION {
               IF r2.res = "raise"
               THEN NewWindowFallback(r2.w)
               ELSE {Got(r2)}
               : r2 \in split_window(l.w, 112, l.w.current_window, vertical) }
             : l \in select_layout(rz.w, 111, rz.w.current_window) }
      : rz \in resize_window(w, 111, w.current_window) }

(* lines 106-118: the handler of the first split failure *)
ResizeFallback(w, vertical) ==
    UNION {
      IF rz.res = "raise"
      THEN NewWindowFallback(rz.w)
      ELSE UNION {
             IF r2.res = "raise"
             THEN NewWindowFallback(r2.w)
             ELSE {Got(r2)}
             : r2 \in split_window(rz.w, 112, rz.w.current_window, vertical) }
      : rz \in resize_window(w, 111, w.current_window) }

(* every placement splits the window, the first one too *)
AcquirePaneAlwaysSplit(w) ==
    UNION {
      IF r1.res = "raise"
      THEN ResizeFallback(r1.w, SplitOrientation(w.count))
      ELSE {Got(r1)}
      : r1 \in split_window(w, 105, w.current_window, SplitOrientation(w.count)) }

(* lines 95-121: the pane of the placement *)
AcquirePane(w) ==
    IF w.count = 0
    THEN { Got(r) : r \in attached_pane(w, 98, w.current_window) }
    ELSE UNION {
           IF r1.res = "raise"
           THEN ResizeFallback(r1.w, SplitOrientation(w.count))
           ELSE {Got(r1)}
           : r1 \in split_window(w, 105, w.current_window, SplitOrientation(w.count)) }

(* create_pane laying the window out last: registration, title, command,  *)
(* then layout                                                              *)
PlacePaneLayoutLast(w, hostname, command, pane) ==
    UNION {
      UNION {
        { IF l.res = "raise" THEN Failed(l.w) ELSE Ret(l.w, TRUE)
          : l \in select_layout(c, 124, c.current_window) }
        : c \in IF command
                THEN { k.w : k \in send_keys(t.w, 203, pane, "command") }
                ELSE {t.w} }
      : t \in send_keys([w EXCEPT !.panes = Put(@, hostname, pane),
                                  !.count = @ + 1],
                        188, pane, "title") }

(* create_pane keeping the pane a host key is already registered for *)
PlacePaneKeepFirst(w, hostname, command, pane) ==
    UNION {
      IF l.res = "raise"
      THEN {Failed(l.w)}
      ELSE UNION {
             IF command
             THEN { Ret(c.w, TRUE) : c \in send_keys(t.w, 203, pane, "command") }
             ELSE {Ret(t.w, TRUE)}
             : t \in send_keys([l.w EXCEPT !.panes = IF hostname \in DOMAIN @
                                                      THEN @ ELSE Put(@, hostname, pane),
                                           !.count = @ + 1],
                               188, pane, "title") }
      : l \in select_layout(w, 124, w.current_window) }

(* create_pane registering the pane before it lays the window out *)
PlacePaneRegisterFirst(w, hostname, command, pane) ==
    UNION {
      IF l.res = "raise"
      THEN {Failed(l.w)}
      ELSE UNION {
             IF command
             THEN { Ret(c.w, TRUE) : c \in send_keys(t.w, 203, pane, "command") }
             ELSE {Ret(t.w, TRUE)}
             : t \in send_keys(l.w, 188, pane, "title") }
      : l \in select_layout([w EXCEPT !.panes = Put(@, hostname, pane),
                                      !.count = @ + 1],
                            124, w.current_window) }

(* lines 123-139: layout, registration, title, command *)
PlacePane(w, hostname, command, pane) ==
    UNION {
      IF l.res = "raise"
      THEN {Failed(l.w)}
      ELSE UNION {
             IF command
             THEN { Ret(c.w, TRUE) : c \in send_keys(t.w, 203, pane, "command") }
             ELSE {Ret(t.w, TRUE)}
             : t \in send_keys([l.w EXCEPT !.panes = Put(@, hostname, pane),
                                           !.count = @ + 1],
                               188, pane, "title") }
      : l \in select_layout(w, 124, w.current_window) }

(* lines 89-143 *)
PlaceInSession(w, hostname, command) ==
    UNION {
      IF e.exc \/ e.w.current_window = NoHandle
      THEN {Failed(e.w)}
      ELSE UNION {
             IF g.ok
             THEN PlacePane(g.w, hostname, command, g.pane)
             ELSE {Failed(g.w)}
             : g \in AcquirePane(e.w) }
      : e \in ensure_window_available(w) }

(* create_pane refusing to work without a session *)
EnsureSessionStrict(w) ==
    IF w.session = NoHandle \/ w.current_window = NoHandle
    THEN {Ret(w, FALSE)}
    ELSE {Ret(w, TRUE)}

(* lines 66-68: the session create_pane works on *)
EnsureSession(w) ==
    IF w.session = NoHandle \/ w.current_window = NoHandle
    THEN create_session(w)
    ELSE {Ret(w, TRUE)}

(* create_pane reporting success whatever happened *)
create_pane_always_true(w0, hostname, command) ==
    { Ret(r.w, TRUE)
      : r \in UNION {
                 IF s.ret
                 THEN PlaceInSession(s.w, hostname, command)
                 ELSE {Failed(s.w)}
                 : s \in EnsureSession(w0) } }

create_pane(w0, hostname, command) ==
    UNION {
      IF s.ret
      THEN PlaceInSession(s.w, hostname, command)
      ELSE {Failed(s.w)}
      : s \in EnsureSession(w0) }

----------------------------------------------------------------------------
(* TmuxManager.create_pane, statement by statement: one step per driver     *)
(* call and per group of assignments, for calls that run on threads of      *)
(* their own.  l holds the locals of the call: where it is (pc), where      *)
(* ensure_window_available() returns to (back), window_index, new_window,   *)
(* pane and vertical_split.                                                 *)

Goto(w, l, pc) == [w |-> w, l |-> [l EXCEPT !.pc = pc]]

Return(w, l, value) == [w |-> w, l |-> [l EXCEPT !.pc = "return", !.ret = value]]

(* lines 74-77: the capacity test, window_index = len(self.windows) *)
StepEnsure(w, l) ==
    IF NeedsNewWindow(w) /\ w.session # NoHandle
    THEN {Goto(w, [l EXCEPT !.index = NextWindowIndex(w)], "new_window")}
    ELSE {Goto(w, l, l.back)}

(* line 78: new_window = self.session.new_window(...) *)
StepNewWindow(w, l) ==
    { IF r.res = "raise"
      THEN Return(r.w, l, FALSE)
      ELSE IF r.hnd # NoHandle
      THEN Goto(r.w, [l EXCEPT !.hnd = r.hnd], "adopt")
      ELSE Goto(r.w, l, l.back)
      : r \in new_window(w, 78, "sshplex-index") }

(* lines 80-82: the new window becomes the active, registered one *)
StepAdopt(w, l) ==
    {Goto([w EXCEPT !.current_window = l.hnd,
                    !.windows = Put(@, l.index, l.hnd),
                    !.count = 0],
          [l EXCEPT !.hnd = NoHandle, !.index = 0], l.back)}

(* lines 91-105: the pane of the window, or the first split *)
StepPane(w, l) ==
    IF w.current_window = NoHandle
    THEN {Return(w, l, FALSE)}
    ELSE IF w.count = 0
    THEN { IF r.res = "ok"
           THEN Goto(r.w, [l EXCEPT !.pane = r.pane], "layout")
           ELSE Return(r.w, l, FALSE)
           : r \in attached_pane(w, 98, w.current_window) }
    ELSE { IF r.res = "raise"
           THEN Goto(r.w, [l EXCEPT !.vertical = SplitOrientation(w.count)], "resize")
           ELSE IF r.res = "ok"
           THEN Goto(r.w, [l EXCEPT !.pane = r.pane], "layout")
           ELSE Return(r.w, l, FALSE)
           : r \in split_window(w, 105, w.current_window, SplitOrientation(w.count)) }

(* line 111 *)
StepResize(w, l) ==
    { IF r.res = "raise"
      THEN Goto(r.w, [l EXCEPT !.back = "last"], "ensure")
      ELSE Goto(r.w, l, "retry")
      : r \in resize_window(w, 111, w.current_window) }

(* line 112 *)
StepRetry(w, l) ==
    { IF r.res = "raise"
      THEN Goto(r.w, [l EXCEPT !.back = "last"], "ensure")
      ELSE IF r.res = "ok"
      THEN Goto(r.w, [l EXCEPT !.pane = r.pane], "layout")
      ELSE Return(r.w, l, FALSE)
      : r \in split_window(w, 112, w.current_window, l.vertical) }

(* lines 117-118 *)
StepLast(w, l) ==
    { IF r.res = "ok"
      THEN Goto(r.w, [l EXCEPT !.pane = r.pane], "layout")
      ELSE Return(r.w, l, FALSE)
      : r \in split_window(w, 118, w.current_window, TRUE) }

(* line 124 *)
StepLayout(w, l) ==
    { IF r.res = "raise" THEN Return(r.w, l, FALSE) ELSE Goto(r.w, l, "register")
      : r \in select_layout(w, 124, w.current_window) }

(* lines 127-128 *)
StepRegister(w, l, hostname) ==
    {Goto([w EXCEPT !.panes = Put(@, hostname, l.pane), !.count = @ + 1], l, "title")}

(* line 131 *)
StepTitle(w, l) ==
    { Goto(r.w, l, "command") : r \in send_keys(w, 188, l.pane, "title") }

(* lines 134-139 *)
StepCommand(w, l) ==
    { Return(r.w, l, TRUE) : r \in send_keys(w, 203, l.pane, "command") }

(* the step a call at l.pc takes *)
StepOf(w, l, hostname) ==
    CASE l.pc = "ensure"     -> StepEnsure(w, l)
      [] l.pc = "new_window" -> StepNewWindow(w, l)
      [] l.pc = "adopt"      -> StepAdopt(w, l)
      [] l.pc = "pane"       -> StepPane(w, l)
      [] l.pc = "resize"     -> StepResize(w, l)
      [] l.pc = "retry"      -> StepRetry(w, l)
      [] l.pc = "last"       -> StepLast(w, l)
      [] l.pc = "layout"     -> StepLayout(w, l)
      [] l.pc = "register"   -> StepRegister(w, l, hostname)
      [] l.pc = "title"      -> StepTitle(w, l)
      [] l.pc = "command"    -> StepCommand(w, l)
      [] OTHER               -> {}

----------------------------------------------------------------------------
(* TmuxManager.create_window *)

(* lines 166-173: the pane is stored, the command sent *)
StorePane(w, hostname, command, pane) ==
    LET s == [w EXCEPT !.panes = Put(@, hostname, pane)]
    IN IF command
       THEN { Ret(k.w, k.res = "ok") : k \in send_keys(s, 170, pane, "command") }
       ELSE {Ret(s, TRUE)}

(* create_window making the window it opens the active, registered one *)
create_window_tracked(w0, hostname, command) ==
    IF w0.session = NoHandle
    THEN {Ret(w0, FALSE)}
    ELSE UNION {
           IF r.res # "ok"
           THEN {Ret(r.w, FALSE)}
           ELSE UNION {
                  IF p1.res # "ok"
                  THEN {Ret(p1.w, FALSE)}
                  ELSE UNION {
                         IF p2.res # "ok"
                         THEN {Ret(p2.w, FALSE)}
                         ELSE StorePane([p2.w EXCEPT
                                            !.current_window = r.hnd,
                                            !.windows = Put(@, NextWindowIndex(w0), r.hnd),
                                            !.count = 1],
                                        hostname, command, <<r.hnd, 0>>)
                         : p2 \in window_panes_list(p1.w, 160, r.hnd) }
                  : p1 \in window_panes_list(r.w, 160, r.hnd) }
           : r \in new_window(w0, 153, "hostname") }

(* lines 145-177; window.panes is read twice at line 160 *)
create_window(w0, hostname, command) ==
    IF w0.session = NoHandle
    THEN {Ret(w0, FALSE)}
    ELSE UNION {
           IF r.res # "ok"
           THEN {Ret(r.w, FALSE)}
           ELSE UNION {
                  IF p1.res # "ok"
                  THEN {Ret(p1.w, FALSE)}
                  ELSE UNION {
                         IF p2.res # "ok"
                         THEN {Ret(p2.w, FALSE)}
                         ELSE StorePane(p2.w, hostname, command, <<r.hnd, 0>>)
                         : p2 \in window_panes_list(p1.w, 160, r.hnd) }
                  : p1 \in window_panes_list(r.w, 160, r.hnd) }
           : r \in new_window(w0, 153, "hostname") }

----------------------------------------------------------------------------
(* TmuxManager.close_session; it returns nothing, ret is always TRUE *)

(* close_session forgetting self.windows.clear() *)
close_session_keeps_windows(w) ==
    IF w.session # NoHandle
    THEN { IF k.res = "raise"
           THEN Ret(k.w, TRUE)
           ELSE Ret([k.w EXCEPT !.session = NoHandle,
                                !.current_window = NoHandle,
                                !.panes = Empty,
                                !.count = 0], TRUE)
           : k \in kill_session(w, 231) }
    ELSE {Ret(w, TRUE)}

(* close_session forgetting self.panes.clear() *)
close_session_keeps_panes(w) ==
    IF w.session # NoHandle
    THEN { IF k.res = "raise"
           THEN Ret(k.w, TRUE)
           ELSE Ret([k.w EXCEPT !.session = NoHandle,
                                !.current_window = NoHandle,
                                !.windows = Empty,
                                !.count = 0], TRUE)
           : k \in kill_session(w, 231) }
    ELSE {Ret(w, TRUE)}

close_session(w) ==
    IF w.session # NoHandle
    THEN { IF k.res = "raise"
           THEN Ret(k.w, TRUE)
           ELSE Ret([k.w EXCEPT !.session = NoHandle,
                                !.current_window = NoHandle,
                                !.windows = Empty,
                                !.panes = Empty,
                                !.count = 0], TRUE)
           : k \in kill_session(w, 231) }
    ELSE {Ret(w, TRUE)}

----------------------------------------------------------------------------
(* TmuxManager.setup_broadcast_keybinding and attach_to_session.            *)

(* session.cmd('bind-key', 'b', toggle_command), line 291 *)
bind_key(w, site) ==
    LET can == w.server.session # NoHandle
    IN { [w |-> Done(w, can, o, Call("bind-key", site, 0, 0, "b", o)), res |-> o]
         : o \in Outcomes(w, can, {"raise"}) }

(* subprocess.Popen(["osascript", "-e", apple_script]), line 269: the new   *)
(* terminal runs tmux -CC attach-session; starting the process can fail     *)
Popen(w, site) ==
    { [w |-> Done(w, TRUE, o, Call("Popen", site, 0, 0, "attach-session", o)), res |-> o]
      : o \in Outcomes(w, TRUE, {"raise"}) }

(* print("To attach to the session, run: tmux attach-session -t ..."), 273 *)
print_attach(w, site) ==
    { [w |-> Issue(w, Call("print", site, 0, 0, "attach-session", "ok")), res |-> "ok"] }

(* lines 280-298: False without a session or when bind-key raises *)
setup_broadcast_keybinding(w) ==
    IF w.session = NoHandle
    THEN {Ret(w, FALSE)}
    ELSE { Ret(k.w, k.res = "ok") : k \in bind_key(w, 291) }

(* attach_to_session that prints the instructions after the launch as well *)
attach_to_session_print_after_launch(w, auto_attach) ==
    IF w.session # NoHandle
    THEN UNION {
           IF auto_attach
           THEN UNION { IF p.res = "raise"
                        THEN {Ret(p.w, TRUE)}
                        ELSE { Ret(q.w, TRUE) : q \in print_attach(p.w, 273) }
                        : p \in Popen(k.w, 269) }
           ELSE { Ret(p.w, TRUE) : p \in print_attach(k.w, 273) }
           : k \in setup_broadcast_keybinding(w) }
    ELSE {Ret(w, TRUE)}

(* lines 241-278; the method returns None, modelled as TRUE; every          *)
(* exception ends in the except clause of 277-278                           *)
attach_to_session(w, auto_attach) ==
    IF w.session # NoHandle
    THEN UNION {
           IF auto_attach
           THEN { Ret(p.w, TRUE) : p \in Popen(k.w, 269) }
           ELSE { Ret(p.w, TRUE) : p \in print_attach(k.w, 273) }
           : k \in setup_broadcast_keybinding(w) }
    ELSE {Ret(w, TRUE)}

-----------------------------------------------------------------------------

(* TmuxManager.enable_broadcast, disable_broadcast, toggle_broadcast.       *)
(* self.windows is a dict: it is walked in insertion order, which is the    *)
(* order of its keys 0, 1, 2, ...                                           *)

(* lines 333-341: the loop from index i on; enabled is broadcast_enabled *)
RECURSIVE EnableFrom(_, _, _)
EnableFrom(w, i, enabled) ==
    IF i \notin DOMAIN w.windows
    THEN {Ret(w, enabled)}
    ELSE IF w.windows[i] # NoHandle /\ window_panes(w, w.windows[i]) > 1
         THEN UNION {
                IF c.res = "raise"
                THEN {Ret(c.w, FALSE)}
                ELSE EnableFrom(c.w, i + 1, TRUE)
                : c \in set_window_option(w, 335, w.windows[i], "on") }
         ELSE EnableFrom(w, i + 1, enabled)

(* enable_broadcast that stops after the first window it has set *)
enable_broadcast_first_only(w) ==
    IF w.session = NoHandle
    THEN {Ret(w, FALSE)}
    ELSE LET multi == {i \in DOMAIN w.windows : window_panes(w, w.windows[i]) > 1}
         IN IF multi = {}
            THEN {Ret(w, FALSE)}
            ELSE LET i == CHOOSE k \in multi : \A j \in multi : k <= j
                 IN { IF c.res = "raise" THEN Ret(c.w, FALSE) ELSE Ret(c.w, TRUE)
                      : c \in set_window_option(w, 335, w.windows[i], "on") }

(* enable_broadcast looking at the active window only *)
enable_broadcast_current_only(w) ==
    IF w.session = NoHandle
    THEN {Ret(w, FALSE)}
    ELSE IF w.current_window # NoHandle /\ window_panes(w, w.current_window) > 1
         THEN { IF c.res = "raise" THEN Ret(c.w, FALSE) ELSE Ret(c.w, TRUE)
                : c \in set_window_option(w, 335, w.current_window, "on") }
         ELSE {Ret(w, FALSE)}

enable_broadcast(w) ==
    IF w.session = NoHandle
    THEN {Ret(w, FALSE)}
    ELSE EnableFrom(w, 0, FALSE)

(* lines 355-363: the loop from index i on; disabled is broadcast_disabled *)
RECURSIVE DisableFrom(_, _, _)
DisableFrom(w, i, disabled) ==
    IF i \notin DOMAIN w.windows
    THEN {Ret(w, disabled)}
    ELSE IF w.windows[i] # NoHandle
         THEN UNION {
                IF c.res = "raise"
                THEN {Ret(c.w, FALSE)}
                ELSE DisableFrom(c.w, i + 1, TRUE)
                : c \in set_window_option(w, 357, w.windows[i], "off") }
         ELSE DisableFrom(w, i + 1, disabled)

disable_broadcast(w) ==
    IF w.session = NoHandle
    THEN {Ret(w, FALSE)}
    ELSE DisableFrom(w, 0, FALSE)

(* lines 378-379: the indices of the registered windows with several panes *)
MultiPane(w) ==
    {i \in DOMAIN w.windows :
        w.windows[i] # NoHandle /\ window_panes(w, w.windows[i]) > 1}

(* the sampled window is the LAST registered window with several panes *)
SampledLast(w) == CHOOSE i \in MultiPane(w) : \A j \in MultiPane(w) : j <= i

(* lines 378-384: the first registered window with several panes *)
Sampled(w) == CHOOSE i \in MultiPane(w) : \A j \in MultiPane(w) : i <= j

(* toggle_broadcast that enables whatever it has read *)
toggle_broadcast_enable_only(w) ==
    IF w.session = NoHandle
    THEN {Ret(w, FALSE)}
    ELSE IF MultiPane(w) = {}
         THEN enable_broadcast(w)
         ELSE UNION {
                IF q.res = "raise"
                THEN {Ret(q.w, FALSE)}
                ELSE enable_broadcast(q.w)
                : q \in show_window_options(w, 381, w.windows[Sampled(w)]) }

toggle_broadcast(w) ==
    IF w.session = NoHandle
    THEN {Ret(w, FALSE)}
    ELSE IF MultiPane(w) = {}
         THEN enable_broadcast(w)
         ELSE UNION {
                IF q.res = "raise"
                THEN {Ret(q.w, FALSE)}
                ELSE IF q.stdout = "on"
                     THEN disable_broadcast(q.w)
                     ELSE enable_broadcast(q.w)
                : q \in show_window_options(w, 381, w.windows[Sampled(w)]) }

----------------------------------------------------------------------------
(* TmuxSessionManager.action_toggle_broadcast (session_manager.py, 314-361) *)
(* for the session of our name, selected in the table.  A result is the     *)
(* world after the call and the flag self.broadcast_enabled.                *)

(* lines 340-341 and 350-351: the loop over tmux_session.windows, the       *)
(* server's windows in the order of their ids, from id i on; a command that *)
(* raises ends the loop (line 358)                                          *)
RECURSIVE SetAllFrom(_, _, _, _)
SetAllFrom(w, i, site, value) ==
    IF i >= w.server.nextWin
    THEN {w}
    ELSE IF i \in DOMAIN w.server.windows
         THEN UNION {
                IF c.res = "raise"
                THEN {c.w}
                ELSE SetAllFrom(c.w, i + 1, site, value)
                : c \in set_window_option(w, site, i, value) }
         ELSE SetAllFrom(w, i + 1, site, value)

action_toggle_broadcast(w, enabled) ==
    UNION {
      IF f.res = "raise" \/ f.hnd = NoHandle
      THEN {[w |-> f.w, enabled |-> enabled]}
      ELSE { [w |-> z, enabled |-> ~enabled]
             : z \in IF ~enabled
                     THEN SetAllFrom(f.w, 1, 341, "on")
                     ELSE SetAllFrom(f.w, 1, 351, "off") }
      : f \in find_where(w, 330) }

----------------------------------------------------------------------------
(* AnsibleProvider.get_hosts (lib/sot/ansible.py).  An inventory is the     *)
(* _meta.hostvars dictionary of one loaded file, in file order: a sequence  *)
(* of entries with distinct names.  Names and addresses are strings, so     *)
(* that the de-duplication key of line 134 is the string the code builds.   *)

HostNames == {"h", "h:"}
Addresses == {"1", ":1"}
(* vars.get('ansible_host') of an entry without the variable *)
NoAddress == ""
(* None, for a Host *)
NoHost == [name |-> "", ip |-> "", origin |-> 0]

Entries == [name : HostNames, ansible_host : Addresses \cup {NoAddress}]

Hostvars ==
    UNION { { q \in [1..n -> Entries] : \A i, j \in 1..n : i # j => q[i].name # q[j].name }
            : n \in 0..MaxEntries }

InventoryLists == UNION { [1..n -> Hostvars] : n \in 0..MaxInventories }

(* lines 278-281 and 289-305: None without an address, else the Host;      *)
(* origin is the inventory the object was built from                        *)
create_host_from_vars(host_name, host_vars, origin) ==
    IF host_vars.ansible_host = NoAddress
    THEN NoHost
    ELSE [name |-> host_name, ip |-> host_vars.ansible_host, origin |-> origin]

(* lines 112-129: every entry of every inventory, in load order; the        *)
(* result of _create_host_from_vars is appended as it is, None included     *)
RECURSIVE Collected(_, _)
Collected(inventories, k) ==
    IF k > Len(inventories)
    THEN <<>>
    ELSE [i \in 1..Len(inventories[k]) |->
             create_host_from_vars(inventories[k][i].name, inventories[k][i], k)]
         \o Collected(inventories, k + 1)

(* line 134: key = f"{host.name}:{host.ip}" *)
Key(host) == host.name \o ":" \o host.ip

(* lines 132-142: unique_hosts is a dict, its values come back in the       *)
(* order the keys were inserted; a later host of a known key only has its   *)
(* metadata merged into the one kept                                        *)
RECURSIVE Unique(_, _, _)
Unique(hosts, i, unique_hosts) ==
    IF i > Len(hosts)
    THEN unique_hosts
    ELSE IF \E u \in 1..Len(unique_hosts) : Key(unique_hosts[u]) = Key(hosts[i])
         THEN Unique(hosts, i + 1, unique_hosts)
         ELSE Unique(hosts, i + 1, Append(unique_hosts, hosts[i]))

(* lines 98-148: no inventories  -> []; host.name of a None entry raises     *)
(* AttributeError in the loop of line 133, the except clause of 146-148     *)
(* returns []                                                               *)
get_hosts(inventories) ==
    IF inventories = <<>>
    THEN <<>>
    ELSE LET hosts == Collected(inventories, 1)
         IN IF \E i \in 1..Len(hosts) : hosts[i] = NoHost
            THEN <<>>
            ELSE Unique(hosts, 1, <<>>)

-----------------------------------------------------------------------------

(* HostSelector (lib/ui/host_selector.py): the loaded hosts, the search      *)
(* filter and the selection.  Names and addresses are sequences of           *)
(* characters, the search is the substring match fnmatch makes of            *)
(* "*term*"; the other two attributes searched, cluster and role, are empty. *)

SelectorHosts ==
    { [name |-> <<"A", "b">>, ip |-> <<"1">>],
      [name |-> <<"b">>, ip |-> <<"2">>],
      [name |-> <<"a">>, ip |-> <<"1", "2">>] }

(* self.hosts as load_hosts leaves it (line 412): distinct hosts in         *)
(* inventory order                                                          *)
LoadedLists ==
    UNION { { q \in [1..n -> SelectorHosts] : \A i, j \in 1..n : i # j => q[i] # q[j] }
            : n \in 0..MaxLoaded }

(* what the user can type into the search input *)
SearchValues == { <<>>, <<"a">>, <<"B">>, <<" ", "2">>, <<" ">> }

(* table.cursor_row *)
Rows == 0..(MaxLoaded - 1)

(* str.lower() *)
Lower(text) ==
    [i \in 1..Len(text) |-> CASE text[i] = "A" -> "a"
                              [] text[i] = "B" -> "b"
                              [] OTHER -> text[i]]

(* str.strip() *)
RECURSIVE Strip(_)
Strip(text) ==
    IF text = <<>> THEN <<>>
    ELSE IF Head(text) = " " THEN Strip(Tail(text))
    ELSE IF text[Len(text)] = " " THEN Strip(SubSeq(text, 1, Len(text) - 1))
    ELSE text

(* fnmatch.fnmatchcase(text, "*" + term + "*") for a term without wildcards *)
Contains(text, term) ==
    \E i \in 1..(Len(text) + 1) :
        /\ i + Len(term) - 1 <= Len(text)
        /\ SubSeq(text, i, i + Len(term) - 1) = term

(* lines 494, 515, 529: the list the table shows *)
hosts_to_use(s) == IF s.search_filter # <<>> THEN s.filtered_hosts ELSE s.hosts

(* lines 673-691 *)
filter_hosts(s) ==
    LET term == Lower(Strip(Lower(s.search_filter)))
    IN [s EXCEPT !.filtered_hosts =
            SelectSeq(s.hosts, LAMBDA host : \/ Contains(Lower(host.name), term)
                                             \/ Contains(Lower(host.ip), term)
                                             \/ Contains(<<>>, term))]

(* lines 660-671 *)
on_input_changed(s, value) ==
    filter_hosts([s EXCEPT !.search_filter = Strip(Lower(value))])

(* lines 488-508 *)
action_toggle_select(s, cursor_row) ==
    IF s.hosts = <<>>
    THEN s
    ELSE IF cursor_row >= 0 /\ cursor_row < Len(hosts_to_use(s))
         THEN LET host_name == hosts_to_use(s)[cursor_row + 1].name
              IN IF host_name \in s.selected_hosts
                 THEN [s EXCEPT !.selected_hosts = @ \ {host_name}]
                 ELSE [s EXCEPT !.selected_hosts = @ \cup {host_name}]
         ELSE s

(* lines 510-522 *)
action_select_all(s) ==
    IF s.hosts = <<>>
    THEN s
    ELSE [s EXCEPT !.selected_hosts =
              @ \cup {hosts_to_use(s)[i].name : i \in 1..Len(hosts_to_use(s))}]

(* lines 524-536 *)
action_deselect_all(s) ==
    IF s.hosts = <<>>
    THEN s
    ELSE [s EXCEPT !.selected_hosts =
              @ \ {hosts_to_use(s)[i].name : i \in 1..Len(hosts_to_use(s))}]

(* action_connect_selected that hands over the hosts the table shows *)
action_connect_selected_shown(s) ==
    IF s.selected_hosts = {}
    THEN s
    ELSE LET selected_host_objects ==
                 SelectSeq(hosts_to_use(s), LAMBDA h : h.name \in s.selected_hosts)
         IN [action_deselect_all(s) EXCEPT !.exited = TRUE,
                                           !.result = selected_host_objects]

(* lines 538-560: nothing without a selection; else the selected hosts are  *)
(* taken from self.hosts, the shown hosts are deselected and the app exits  *)
(* with the list                                                            *)
action_connect_selected(s) ==
    IF s.selected_hosts = {}
    THEN s
    ELSE LET selected_host_objects ==
                 SelectSeq(s.hosts, LAMBDA h : h.name \in s.selected_hosts)
         IN [action_deselect_all(s) EXCEPT !.exited = TRUE,
                                           !.result = selected_host_objects]

-----------------------------------------------------------------------------

(* The state machine *)

World(allow, maxWin) ==
    [session |-> session, current_window |-> current_window, windows |-> windows,
     panes |-> panes, count |-> current_window_pane_count,
     cap |-> max_panes_per_window, server |-> server, calls |-> <<>>,
     allow |-> allow, maxWin |-> maxWin]

Apply(op, host, r) ==
    /\ session' = r.w.session
    /\ current_window' = r.w.current_window
    /\ windows' = r.w.windows
    /\ panes' = r.w.panes
    /\ current_window_pane_count' = r.w.count
    /\ server' = r.w.server
    /\ calls' = r.w.calls
    /\ lastCall' = [op |-> op, host |-> host, ret |-> r.ret]
    /\ UNCHANGED <<max_panes_per_window, provider, selector>>

(* a method called directly on the manager, no connector involved *)
Commit(op, host, r) ==
    /\ Apply(op, host, r)
    /\ UNCHANGED <<closed, connector, broadcast_enabled, threads>>

(* nothing was closed yet *)
NoneClosed == [windows |-> 0, panes |-> 0]

(* a thread that is not inside create_pane and has `left` calls to make *)
IdleThread(left) ==
    [pc |-> "idle", back |-> "", index |-> 0, hnd |-> NoHandle, pane |-> NoPane,
     vertical |-> FALSE, ret |-> FALSE, left |-> left]

(* the two threads before they are started; serialized = they call         *)
(* create_pane under one mutex                                              *)
NoThreads == [serialized |-> FALSE, t |-> [i \in {1, 2} |-> IdleThread(0)]]

(* no connect_to_hosts is running *)
Idle ==
    [pc |-> "idle", hosts |-> <<>>, use_broadcast |-> FALSE, created |-> FALSE,
     attempted |-> <<>>, success_count |-> 0, result |-> FALSE]

(* no inventory is loaded *)
NoProvider == [pc |-> "idle", inventories |-> <<>>, hosts |-> <<>>]

(* no selector is on screen *)
NoSelector ==
    [hosts |-> <<>>, filtered_hosts |-> <<>>, search_filter |-> <<>>,
     selected_hosts |-> {}, exited |-> FALSE, result |-> <<>>, previous |-> {}]

(* __init__ (lines 14-28); the server may already hold a session of our name *)
Init ==
    /\ session = NoHandle
    /\ current_window = NoHandle
    /\ windows = Empty
    /\ panes = Empty
    /\ current_window_pane_count = 0
    /\ max_panes_per_window \in 1..MaxCap
    /\ server \in {NoServerSession(1, 0)} \cup {ExistingServerSession(n) : n \in 1..MaxDrvPanes}
    /\ calls = <<>>
    /\ lastCall = [op |-> "init", host |-> 0, ret |-> TRUE]
    /\ closed = NoneClosed
    /\ connector = Idle
    /\ broadcast_enabled = FALSE
    /\ threads = NoThreads
    /\ provider = NoProvider
    /\ selector = NoSelector

CreateSession ==
    \E r \in create_session(World(AllOutcomes, MaxWindows)) : Commit("create_session", 0, r)

CloseSession ==
    \E r \in close_session(World(AllOutcomes, MaxWindows)) : Commit("close_session", 0, r)

CreatePane ==
    \E hostname \in Hosts, command \in BOOLEAN :
        \E r \in create_pane(World(AllOutcomes, MaxWindows), hostname, command) :
            Commit("create_pane", hostname, r)

Next ==
    \/ CreateSession
    \/ CreatePane
    \/ CloseSession

Spec == Init /\ [][Next]_vars

(* The failure-free run of the Connector in pane mode: create_session once, *)
(* then one create_pane per host, every host key new, no driver call failing *)
GreedyCreate ==
    /\ lastCall.op = "init"
    /\ \E r \in create_session(World(NoFailure, MaxGreedyWindows)) :
           Commit("create_session", 0, r)

GreedyPlace ==
    /\ lastCall.op # "init"
    /\ \E hostname \in GreedyHosts \ DOMAIN panes, command \in BOOLEAN :
           \E r \in create_pane(World(NoFailure, MaxGreedyWindows), hostname, command) :
               Commit("create_pane", hostname, r)

NextGreedy ==
    \/ GreedyCreate
    \/ GreedyPlace

SpecGreedy == Init /\ [][NextGreedy]_vars

(* A session that is built without failures, closed and built again, while  *)
(* broadcast is enabled, disabled and toggled by the program (the driver may *)
(* fail there) and by the user of the session, whose prefix + b binding      *)
(* toggles the option of one window (setup_broadcast_keybinding, 286-291).  *)
SessionCreate ==
    /\ session = NoHandle
    /\ \E r \in create_session(World(NoFailure, MaxSessionWindows)) :
           Commit("create_session", 0, r)

SessionPlace ==
    /\ session # NoHandle
    /\ Cardinality(DOMAIN panes) < MaxSessionHosts
    /\ \E command \in BOOLEAN :
           \E r \in create_pane(World(NoFailure, MaxSessionWindows),
                                Cardinality(DOMAIN panes) + 1, command) :
               Commit("create_pane", Cardinality(DOMAIN panes) + 1, r)

SessionClose ==
    /\ session # NoHandle
    /\ \E r \in close_session(World(NoFailure, MaxSessionWindows)) :
           /\ Apply("close_session", 0, r)
           /\ closed' = [windows |-> Cardinality(DOMAIN windows),
                         panes |-> Cardinality(DOMAIN panes)]
           /\ UNCHANGED <<connector, broadcast_enabled, threads>>

UserToggles ==
    \E win \in DOMAIN server.windows :
        /\ server' = [server EXCEPT !.sync =
                          Put(@, win, IF win \in DOMAIN @ /\ @[win] = "on"
                                      THEN "off" ELSE "on")]
        /\ calls' = <<>>
        /\ lastCall' = [op |-> "prefix-b", host |-> 0, ret |-> TRUE]
        /\ UNCHANGED <<session, current_window, windows, panes,
                       current_window_pane_count, max_panes_per_window,
                       closed, connector, broadcast_enabled, threads,
                       provider, selector>>

EnableBroadcast ==
    \E r \in enable_broadcast(World(AllOutcomes, MaxSessionWindows)) :
        Commit("enable_broadcast", 0, r)

DisableBroadcast ==
    \E r \in disable_broadcast(World(AllOutcomes, MaxSessionWindows)) :
        Commit("disable_broadcast", 0, r)

ToggleBroadcast ==
    \E r \in toggle_broadcast(World(AllOutcomes, MaxSessionWindows)) :
        Commit("toggle_broadcast", 0, r)

NextSession ==
    \/ SessionCreate
    \/ SessionPlace
    \/ SessionClose
    \/ UserToggles
    \/ EnableBroadcast
    \/ DisableBroadcast
    \/ ToggleBroadcast

SpecSession == Init /\ [][NextSession]_vars

(* The session manager screen next to the manager that built the session:   *)
(* the session is built, closed and built again without failures; its       *)
(* broadcast is toggled by TmuxManager.toggle_broadcast, by the screen's     *)
(* action_toggle_broadcast (both under every driver behaviour) and by the   *)
(* user's prefix + b.                                                       *)
ActionToggleBroadcast ==
    \E r \in action_toggle_broadcast(World(AllOutcomes, MaxSessionWindows),
                                     broadcast_enabled) :
        /\ Apply("action_toggle_broadcast", 0, Ret(r.w, TRUE))
        /\ broadcast_enabled' = r.enabled
        /\ UNCHANGED <<closed, connector, threads>>

NextManager ==
    \/ SessionCreate
    \/ SessionPlace
    \/ SessionClose
    \/ UserToggles
    \/ ToggleBroadcast
    \/ ActionToggleBroadcast

SpecManager == Init /\ [][NextManager]_vars

(* SSHplexConnector.connect_to_hosts in pane mode, as main.py calls it       *)
(* (lines 165-175) and section 4.5 of the specification describes it: the   *)
(* session is created once; every host is placed, in order, a failed         *)
(* placement being counted and passed over; broadcast, when asked for, is    *)
(* enabled after the last placement; the result is whether every host was    *)
(* placed.  A create_session that fails ends the call with failure.          *)

(* the host lists: every sequence of 1..MaxBatch distinct hosts *)
HostLists ==
    UNION { { q \in [1..n -> 1..MaxBatch] : \A i, j \in 1..n : i # j => q[i] # q[j] }
            : n \in 1..MaxBatch }

(* the connector when its last step is taken *)
Returned(cn, count) ==
    [cn EXCEPT !.pc = "done", !.result = (count = Len(cn.hosts))]

ConnectCreate ==
    /\ connector.pc = "idle"
    /\ \E hosts \in HostLists, use_broadcast \in BOOLEAN :
        \E r \in create_session(World(AllOutcomes, MaxWindows)) :
            /\ Apply("create_session", 0, r)
            /\ connector' = [Idle EXCEPT !.hosts = hosts,
                                         !.use_broadcast = use_broadcast,
                                         !.created = r.ret,
                                         !.pc = IF r.ret THEN "place" ELSE "done"]
            /\ UNCHANGED <<closed, broadcast_enabled, threads>>

ConnectPlace ==
    /\ connector.pc = "place"
    /\ LET i     == Len(connector.attempted) + 1
           host  == connector.hosts[i]
       IN \E r \in create_pane(World(AllOutcomes, MaxWindows), host, TRUE) :
            LET count == connector.success_count + (IF r.ret THEN 1 ELSE 0)
                cn    == [connector EXCEPT !.attempted = Append(@, host),
                                           !.success_count = count]
            IN /\ Apply("create_pane", host, r)
               /\ connector' = IF i < Len(connector.hosts) THEN cn
                                ELSE IF connector.use_broadcast
                                     THEN [cn EXCEPT !.pc = "broadcast"]
                                     ELSE Returned(cn, count)
               /\ UNCHANGED <<closed, broadcast_enabled, threads>>

ConnectBroadcast ==
    /\ connector.pc = "broadcast"
    /\ \E r \in enable_broadcast(World(AllOutcomes, MaxWindows)) :
            /\ Apply("enable_broadcast", 0, r)
            /\ connector' = Returned(connector, connector.success_count)
            /\ UNCHANGED <<closed, broadcast_enabled, threads>>

NextConnector ==
    \/ ConnectCreate
    \/ ConnectPlace
    \/ ConnectBroadcast

SpecConnector == Init /\ [][NextConnector]_vars

(* Pane mode and window mode mixed on one manager: create_session,          *)
(* create_pane (with the host's ssh command) and close_session with a       *)
(* driver that does not fail, and create_window under every driver          *)
(* behaviour.                                                               *)
ModeCreate ==
    /\ session = NoHandle
    /\ \E r \in create_session(World(NoFailure, MaxModeWindows)) :
           Commit("create_session", 0, r)

ModePane ==
    \E hostname \in WindowHosts :
        \E r \in create_pane(World(NoFailure, MaxModeWindows), hostname, TRUE) :
            Commit("create_pane", hostname, r)

ModeWindow ==
    \E hostname \in WindowHosts, command \in BOOLEAN :
        \E r \in create_window(World(AllOutcomes, MaxModeWindows), hostname, command) :
            Commit("create_window", hostname, r)

ModeClose ==
    \E r \in close_session(World(NoFailure, MaxModeWindows)) :
        Commit("close_session", 0, r)

NextModes ==
    \/ ModeCreate
    \/ ModePane
    \/ ModeWindow
    \/ ModeClose

SpecModes == Init /\ [][NextModes]_vars

(* Window mode next to pane mode in one session, with broadcast:            *)
(* create_session is called at any time, each host is placed once, in a     *)
(* pane or in a window of its own, all without failures, the user toggles   *)
(* windows with prefix + b,                                                 *)
(* and broadcast is enabled, disabled and toggled under every driver        *)
(* behaviour.                                                               *)
ScopeCreate ==
    \E r \in create_session(World(NoFailure, MaxModeWindows)) :
        Commit("create_session", 0, r)

ScopePane ==
    \E hostname \in WindowHosts \ DOMAIN panes :
        \E r \in create_pane(World(NoFailure, MaxModeWindows), hostname, TRUE) :
            Commit("create_pane", hostname, r)

ScopeWindow ==
    \E hostname \in WindowHosts \ DOMAIN panes :
        \E r \in create_window(World(NoFailure, MaxModeWindows), hostname, TRUE) :
            Commit("create_window", hostname, r)

NextScope ==
    \/ ScopeCreate
    \/ ScopePane
    \/ ScopeWindow
    \/ UserToggles
    \/ EnableBroadcast
    \/ DisableBroadcast
    \/ ToggleBroadcast

SpecScope == Init /\ [][NextScope]_vars

(* Two threads that call create_pane(host, command) on one manager, thread  *)
(* i for host i, after a create_session that succeeded.  The calls are      *)
(* either serialized by a mutex held for the whole call, or not: then the   *)
(* steps of the two calls interleave freely.  The driver behaves in every   *)
(* way.                                                                     *)
Running(i) == threads.t[i].pc # "idle"

MayStep(i) == ~threads.serialized \/ \A j \in {1, 2} \ {i} : ~Running(j)

ThreadsStart ==
    /\ lastCall.op = "init"
    /\ \E serialized \in BOOLEAN :
        \E r \in create_session(World(NoFailure, MaxThreadWindows)) :
            /\ Apply("create_session", 0, r)
            /\ threads' = [serialized |-> serialized,
                           t |-> [i \in {1, 2} |-> IdleThread(MaxThreadCalls)]]
            /\ UNCHANGED <<closed, connector, broadcast_enabled>>

(* the manager as world w leaves it, thread i having moved to l *)
ThreadMoves(i, n) ==
    /\ session' = n.w.session
    /\ current_window' = n.w.current_window
    /\ windows' = n.w.windows
    /\ panes' = n.w.panes
    /\ current_window_pane_count' = n.w.count
    /\ server' = n.w.server
    /\ calls' = n.w.calls
    /\ threads' = [threads EXCEPT !.t[i] = n.l]
    /\ UNCHANGED <<max_panes_per_window, lastCall, closed, connector,
                   broadcast_enabled, provider, selector>>

(* lines 62-68: the call begins; the session and its window are there *)
ThreadCalls ==
    \E i \in {1, 2} :
        /\ MayStep(i)
        /\ ~Running(i)
        /\ threads.t[i].left > 0
        /\ session # NoHandle /\ current_window # NoHandle
        /\ threads' = [threads EXCEPT !.t[i].pc = "ensure", !.t[i].back = "pane",
                                      !.t[i].left = @ - 1]
        /\ calls' = <<>>
        /\ UNCHANGED <<session, current_window, windows, panes,
                       current_window_pane_count, max_panes_per_window, server,
                       lastCall, closed, connector, broadcast_enabled,
                       provider, selector>>

ThreadSteps ==
    \E i \in {1, 2} :
        /\ MayStep(i)
        /\ \E n \in StepOf(World(AllOutcomes, MaxThreadWindows), threads.t[i], i) :
               ThreadMoves(i, n)

(* lines 139 and 141-143: the call returns *)
ThreadReturns ==
    \E i \in {1, 2} :
        /\ MayStep(i)
        /\ threads.t[i].pc = "return"
        /\ threads' = [threads EXCEPT !.t[i] = IdleThread(threads.t[i].left)]
        /\ lastCall' = [op |-> "create_pane", host |-> i, ret |-> threads.t[i].ret]
        /\ calls' = <<>>
        /\ UNCHANGED <<session, current_window, windows, panes,
                       current_window_pane_count, max_panes_per_window, server,
                       closed, connector, broadcast_enabled, provider, selector>>

NextThreads ==
    \/ ThreadsStart
    \/ ThreadCalls
    \/ ThreadSteps
    \/ ThreadReturns

SpecThreads == Init /\ [][NextThreads]_vars

(* Placements into a session the manager has created itself: the server     *)
(* holds no session at first, create_session succeeds, and then hosts are   *)
(* placed, each new host key once it is bound, under every driver           *)
(* behaviour.                                                               *)
FreshInit ==
    /\ Init
    /\ server = NoServerSession(1, 0)

FreshCreate ==
    /\ lastCall.op = "init"
    /\ \E r \in create_session(World(NoFailure, MaxWindows)) :
           Commit("create_session", 0, r)

FreshPlace ==
    /\ lastCall.op # "init"
    /\ Cardinality(DOMAIN panes) < MaxBatch
    /\ \E command \in BOOLEAN :
           \E r \in create_pane(World(AllOutcomes, MaxWindows),
                                Cardinality(DOMAIN panes) + 1, command) :
               Commit("create_pane", Cardinality(DOMAIN panes) + 1, r)

NextFresh ==
    \/ FreshCreate
    \/ FreshPlace

SpecFresh == FreshInit /\ [][NextFresh]_vars

(* Attaching at any time: the session is created when the manager holds     *)
(* none, hosts are placed and the session is closed under every driver      *)
(* behaviour, and attach_to_session is called with either value of          *)
(* auto_attach (recorded in lastCall.host: 1 for True, 0 for False).        *)
AttachToSession ==
    \E auto_attach \in BOOLEAN :
        \E r \in attach_to_session(World(AllOutcomes, MaxWindows), auto_attach) :
            Commit("attach_to_session", IF auto_attach THEN 1 ELSE 0, r)

NextAttach ==
    \/ SessionCreate
    \/ FreshPlace
    \/ CloseSession
    \/ AttachToSession

SpecAttach == Init /\ [][NextAttach]_vars

(* tui_mode of main.py around the connector: the selector returns a host    *)
(* list or nothing (lines 143-152), connect_to_hosts runs (168-175), and    *)
(* its result decides between attaching and starting over (176-198) and     *)
(* returning 1 (199-201).                                                   *)

(* tui_mode that closes the session before it returns 1 *)
tui_mode_closing(w, connected) ==
    IF connected
    THEN { [w |-> r.w, ret |-> 0] : r \in attach_to_session(w, TRUE) }
    ELSE { [w |-> r.w, ret |-> 1] : r \in close_session(w) }

(* lines 176-201, from the value connect_to_hosts returned to the return    *)
(* code: attach_to_session(auto_attach=True), a new round of tui_mode and   *)
(* return 0 (line 205), or return 1                                         *)
tui_mode(w, connected) ==
    IF connected
    THEN { [w |-> r.w, ret |-> 0] : r \in attach_to_session(w, TRUE) }
    ELSE { [w |-> w, ret |-> 1] }

(* lastCall.host holds the return code of this round *)
TuiConnected ==
    /\ connector.pc = "done"
    /\ \E r \in tui_mode(World(AllOutcomes, MaxWindows), connector.result) :
          /\ Apply("tui_mode", r.ret, [w |-> r.w, ret |-> (r.ret = 0)])
          /\ connector' = [connector EXCEPT
                               !.pc = IF connector.result THEN "attached" ELSE "exit"]
          /\ UNCHANGED <<closed, broadcast_enabled, threads>>

(* line 198: tui_mode(config, logger) again, with a new HostSelector, and   *)
(* on a selection a new connector and manager for a session name of its     *)
(* own (lines 162-165), under which the server holds no session             *)
TuiAgain ==
    /\ connector.pc = "attached"
    /\ session' = NoHandle
    /\ current_window' = NoHandle
    /\ windows' = Empty
    /\ panes' = Empty
    /\ current_window_pane_count' = 0
    /\ server' = NoServerSession(1, server.faults)
    /\ calls' = <<>>
    /\ lastCall' = [op |-> "HostSelector", host |-> 0, ret |-> TRUE]
    /\ connector' = Idle
    /\ UNCHANGED <<max_panes_per_window, closed, broadcast_enabled, threads,
                   provider, selector>>

(* lines 152, 202-205: nothing was selected, return 0 *)
TuiNoSelection ==
    /\ connector.pc = "idle"
    /\ calls' = <<>>
    /\ lastCall' = [op |-> "tui_mode", host |-> 0, ret |-> TRUE]
    /\ connector' = [connector EXCEPT !.pc = "exit"]
    /\ UNCHANGED <<session, current_window, windows, panes,
                   current_window_pane_count, max_panes_per_window, server,
                   closed, broadcast_enabled, threads, provider, selector>>

NextTui ==
    \/ ConnectCreate
    \/ ConnectPlace
    \/ ConnectBroadcast
    \/ TuiConnected
    \/ TuiAgain
    \/ TuiNoSelection

SpecTui == Init /\ [][NextTui]_vars

(* AnsibleProvider.get_hosts on every list of loaded inventories *)
AnsibleInit ==
    /\ session = NoHandle
    /\ current_window = NoHandle
    /\ windows = Empty
    /\ panes = Empty
    /\ current_window_pane_count = 0
    /\ max_panes_per_window = 1
    /\ server = NoServerSession(1, 0)
    /\ calls = <<>>
    /\ lastCall = [op |-> "connect", host |-> 0, ret |-> TRUE]
    /\ closed = NoneClosed
    /\ connector = Idle
    /\ broadcast_enabled = FALSE
    /\ threads = NoThreads
    /\ provider \in {[pc |-> "loaded", inventories |-> inventories, hosts |-> <<>>]
                       : inventories \in InventoryLists}
    /\ selector = NoSelector

GetHosts ==
    /\ provider.pc = "loaded"
    /\ provider' = [provider EXCEPT !.pc = "returned",
                                     !.hosts = get_hosts(provider.inventories)]
    /\ lastCall' = [op |-> "get_hosts", host |-> 0, ret |-> TRUE]
    /\ UNCHANGED <<session, current_window, windows, panes,
                   current_window_pane_count, max_panes_per_window, server,
                   calls, closed, connector, broadcast_enabled, threads, selector>>

NextAnsible == GetHosts

SpecAnsible == AnsibleInit /\ [][NextAnsible]_vars

(* The host selector on every loaded host list: the user toggles rows,      *)
(* selects and deselects all, types into the search input and presses       *)
(* Enter, until the selector exits.  lastCall.host is the cursor row.       *)
SelectorInit ==
    /\ session = NoHandle
    /\ current_window = NoHandle
    /\ windows = Empty
    /\ panes = Empty
    /\ current_window_pane_count = 0
    /\ max_panes_per_window = 1
    /\ server = NoServerSession(1, 0)
    /\ calls = <<>>
    /\ lastCall = [op |-> "load_hosts", host |-> 0, ret |-> TRUE]
    /\ closed = NoneClosed
    /\ connector = Idle
    /\ broadcast_enabled = FALSE
    /\ threads = NoThreads
    /\ provider = NoProvider
    /\ selector \in {[NoSelector EXCEPT !.hosts = hosts, !.filtered_hosts = hosts]
                       : hosts \in LoadedLists}

(* the selector after a handler, the manager untouched; previous is the     *)
(* selection the handler found                                              *)
Handled(op, row, s) ==
    /\ ~selector.exited
    /\ selector' = [s EXCEPT !.previous = selector.selected_hosts]
    /\ lastCall' = [op |-> op, host |-> row, ret |-> TRUE]
    /\ UNCHANGED <<session, current_window, windows, panes,
                   current_window_pane_count, max_panes_per_window, server,
                   calls, closed, connector, broadcast_enabled, threads, provider>>

ToggleSelect ==
    \E cursor_row \in Rows :
        Handled("action_toggle_select", cursor_row,
                action_toggle_select(selector, cursor_row))

SelectAll == Handled("action_select_all", 0, action_select_all(selector))

DeselectAll == Handled("action_deselect_all", 0, action_deselect_all(selector))

InputChanged ==
    \E value \in SearchValues :
        Handled("on_input_changed", 0, on_input_changed(selector, value))

ConnectSelected ==
    Handled("action_connect_selected", 0, action_connect_selected(selector))

NextSelector ==
    \/ ToggleSelect
    \/ SelectAll
    \/ DeselectAll
    \/ InputChanged
    \/ ConnectSelected

SpecSelector == SelectorInit /\ [][NextSelector]_vars

----------------------------------------------------------------------------
(* Vocabulary of the properties *)

(* indices of the calls of a method call that were made at a source line *)
At(cs, site) == {i \in 1..Len(cs) : cs[i].site = site}

Raised(cs, site) == \E i \in At(cs, site) : cs[i].res = "raise"
Succeeded(cs, site) == \E i \in At(cs, site) : cs[i].res = "ok"
NotOk(cs, site) == \E i \in At(cs, site) : cs[i].res # "ok"

NamedCalls(cs, name) == {i \in 1..Len(cs) : cs[i].call = name}

(* driver calls that change the tmux server *)
Mutations ==
    {"new_session", "new_window", "kill_session", "split_window", "resize_window",
     "select_layout", "send_keys"}

Mutating(cs) == \E i \in 1..Len(cs) : cs[i].call \in Mutations

(* host keys registered for a pane of window win *)
HostsIn(win) == {h \in DOMAIN panes : panes[h][1] = win}

Placed == lastCall.op = "create_pane"

(* the first split raised and so did the resize or the split after it *)
SecondFailure(cs) == Raised(cs, 105) /\ (Raised(cs, 111) \/ Raised(cs, 112))

(* ... and the last split, of line 118, failed too *)
Exhausted(cs) == SecondFailure(cs) /\ NotOk(cs, 118)

----------------------------------------------------------------------------
(* C1: whenever a create_pane call has returned, the tracked pane count of  *)
(* the active window is at most the capacity, whatever the driver did.      *)
C1_CapacityInvariant ==
    Placed => current_window_pane_count <= max_panes_per_window

(* C2: after create_session and N >= 1 failure-free placements of distinct  *)
(* hosts with capacity C, exactly ceil(N/C) windows are registered, under   *)
(* the indices 0..ceil(N/C)-1; every window but the last holds C hosts, the *)
(* last holds the remaining N - C*(ceil(N/C)-1), and a window opened by     *)
(* create_pane has as many panes as hosts.                                  *)
C2_GreedyPacking ==
    Placed =>
        LET N == Cardinality(DOMAIN panes)
            C == max_panes_per_window
            K == (N + C - 1) \div C
            Share(i) == IF i < K - 1 THEN C ELSE N - C * (K - 1)
        IN /\ lastCall.ret
           /\ N >= 1
           /\ DOMAIN windows = 0..(K - 1)
           /\ \A i \in 0..(K - 1) :
                 /\ Cardinality(HostsIn(windows[i])) = Share(i)
                 /\ i > 0 => server.windows[windows[i]] = Share(i)
           /\ current_window = windows[K - 1]
           /\ current_window_pane_count = Share(K - 1)

(* capacity 2, 5 hosts: windows 0, 1, 2 with 2, 2 and 1 panes *)
C2_Witness ==
    /\ Placed
    /\ max_panes_per_window = 2
    /\ Cardinality(DOMAIN panes) = 5
    /\ DOMAIN windows = {0, 1, 2}
    /\ current_window_pane_count = 1

(* C3: the registered window indices are always 0..k-1 for k registered     *)
(* windows, and a method call registers a new window only under index k,    *)
(* however many fallback attempts and failed placements came before.        *)
C3_Dense == DOMAIN windows = 0..(Cardinality(DOMAIN windows) - 1)

C3_NextIndex ==
    \/ windows' = Empty
    \/ /\ DOMAIN windows \subseteq DOMAIN windows'
       /\ DOMAIN windows' \ DOMAIN windows \subseteq {Cardinality(DOMAIN windows)}

C3_DenseIndices == []C3_Dense /\ [][C3_NextIndex]_vars

(* a second window registered by the fallback of a placement whose splits   *)
(* had failed *)
C3_Witness ==
    /\ Placed
    /\ DOMAIN windows = {0, 1}
    /\ SecondFailure(calls)
    /\ \E i \in NamedCalls(calls, "new_window") :
          /\ calls[i].res = "ok"
          /\ windows[1] = calls[i].win
          /\ \E j \in At(calls, 105) : j < i

(* C4: when the first split and the split after the resize have failed, a   *)
(* new window is opened whatever the pane count; on success the host's pane *)
(* is in that new window, which is the active one.                          *)
C4_ForcedNewWindow ==
    (Placed /\ SecondFailure(calls)) =>
        \E i \in NamedCalls(calls, "new_window") :
            /\ \E j \in At(calls, 105) : j < i
            /\ (lastCall.ret =>
                   /\ calls[i].res = "ok"
                   /\ current_window = calls[i].win
                   /\ panes[lastCall.host][1] = calls[i].win)

C6_Step ==
    (lastCall'.op = "create_pane" /\ Exhausted(calls')) =>
        /\ ~lastCall'.ret
        /\ panes' = panes
        /\ current_window_pane_count' <= current_window_pane_count

C6_ExhaustedReported == [][C6_Step]_vars

C6_Witness ==
    /\ Placed
    /\ Raised(calls, 105)
    /\ Raised(calls, 112)
    /\ NotOk(calls, 118)
    /\ ~lastCall.ret

(* C7: when the window is full and new_window fails, by raising or by       *)
(* returning nothing, create_pane returns False and attempts no split       *)
(* afterwards.                                                              *)
C7_WindowCreateFailed ==
    Placed =>
        \A i \in NamedCalls(calls, "new_window") :
            calls[i].res # "ok" =>
                /\ ~lastCall.ret
                /\ \A j \in NamedCalls(calls, "split_window") : j < i

(* C8, as claimed: create_pane called without a session returns False,      *)
(* changes nothing at the server and leaves the manager without a session.  *)
C8_Step ==
    (lastCall'.op = "create_pane" /\ session = NoHandle) =>
        /\ ~lastCall'.ret
        /\ ~Mutating(calls')
        /\ session' = NoHandle

C8_NoSessionFails == [][C8_Step]_vars

(* C8, amended: create_pane called without a session runs create_session    *)
(* itself (has_session first); it places the host in the session so created *)
(* or adopted, and fails without any window or pane call only when that     *)
(* create_session got no window.                                            *)
C8_AmendedStep ==
    (lastCall'.op = "create_pane" /\ session = NoHandle) =>
        /\ Len(calls') >= 1
        /\ calls'[1].call = "has_session"
        /\ (lastCall'.ret =>
               /\ session' # NoHandle
               /\ session' = server'.session
               /\ Succeeded(calls', 49))
        /\ (~Succeeded(calls', 49) =>
               /\ ~lastCall'.ret
               /\ \A i \in 1..Len(calls') :
                     calls'[i].call \in {"has_session", "sessions.get", "new_session",
                                         "attached_window"})

C8_CreatesSession == [][C8_AmendedStep]_vars

(* create_pane has created the session it placed the host in *)
C8_Witness ==
    /\ Placed
    /\ lastCall.ret
    /\ Succeeded(calls, 41)
    /\ session # NoHandle

(* C9: create_session called while a session is held issues no call that    *)
(* changes the server, and the session held afterwards is the same.         *)
C9_Step ==
    (lastCall'.op = "create_session" /\ session # NoHandle) =>
        /\ ~Mutating(calls')
        /\ session' = session
        /\ server'.session = server.session

C9_CreateIdempotent == [][C9_Step]_vars

(* create_session has returned True on a manager that holds hosts: it was   *)
(* not the first one *)
C9_Witness ==
    /\ lastCall.op = "create_session"
    /\ lastCall.ret
    /\ DOMAIN panes # {}
    /\ Succeeded(calls, 38)

(* C10: create_session called while a session is held leaves the windows    *)
(* map, the pane map, the active window and its pane count as they were.    *)
C10_Step ==
    (lastCall'.op = "create_session" /\ session # NoHandle) =>
        /\ windows' = windows
        /\ panes' = panes
        /\ current_window' = current_window
        /\ current_window_pane_count' = current_window_pane_count

C10_CreateKeepsTopology == [][C10_Step]_vars

(* the manager as __init__ leaves it (lines 14-28), in the next state *)
FreshManagerNext ==
    /\ session' = NoHandle
    /\ current_window' = NoHandle
    /\ windows' = Empty
    /\ panes' = Empty
    /\ current_window_pane_count' = 0
    /\ max_panes_per_window' = max_panes_per_window

(* C11: close_session with a session held and kill_session succeeding kills *)
(* the session at the server and leaves the manager as freshly constructed; *)
(* with no session held it issues no driver call and changes nothing.       *)
C11_Step ==
    lastCall'.op = "close_session" =>
        /\ (session # NoHandle /\ Succeeded(calls', 231)) =>
               /\ FreshManagerNext
               /\ server'.session = NoHandle
               /\ server'.windows = Empty
        /\ session = NoHandle =>
               /\ calls' = <<>>
               /\ server' = server
               /\ UNCHANGED <<session, current_window, windows, panes,
                              current_window_pane_count, max_panes_per_window>>

C11_CloseClears == [][C11_Step]_vars

(* a close_session whose kill_session succeeded *)
C11_Witness ==
    /\ lastCall.op = "close_session"
    /\ Succeeded(calls, 231)
    /\ session = NoHandle
    /\ server.session = NoHandle

(* C12: after every close_session call, also one whose kill_session failed, *)
(* the manager holds no session, no active window, no window and no pane.   *)
C12_NoHandleAfterClose ==
    lastCall.op = "close_session" =>
        /\ session = NoHandle
        /\ current_window = NoHandle
        /\ windows = Empty
        /\ panes = Empty

(* the calls of a successful create_pane that produce the pane *)
PaneCalls(cs) == NamedCalls(cs, "attached_pane") \cup NamedCalls(cs, "split_window")

(* C17, as claimed: in a successful create_pane the split or reuse comes    *)
(* first, then the title, then the command if any, and the layout last.     *)
C17_LayoutLast ==
    (Placed /\ lastCall.ret) =>
        /\ PaneCalls(calls) # {}
        /\ At(calls, 188) # {}
        /\ At(calls, 124) # {}
        /\ \A p \in PaneCalls(calls), t \in At(calls, 188) : p < t
        /\ \A t \in At(calls, 188), c \in At(calls, 203) : t < c
        /\ \A k \in NamedCalls(calls, "send_keys"), l \in At(calls, 124) : k < l

(* C17, amended: in a successful create_pane the split or reuse comes       *)
(* first, then the one layout call, then the one title call, then the       *)
(* command if any, and nothing after them.                                  *)
C17_LayoutBeforeTitle ==
    (Placed /\ lastCall.ret) =>
        /\ PaneCalls(calls) # {}
        /\ Cardinality(At(calls, 124)) = 1
        /\ NamedCalls(calls, "select_layout") = At(calls, 124)
        /\ Cardinality(At(calls, 188)) = 1
        /\ Cardinality(At(calls, 203)) <= 1
        /\ NamedCalls(calls, "send_keys") = At(calls, 188) \cup At(calls, 203)
        /\ \A p \in PaneCalls(calls), l \in At(calls, 124) : p < l
        /\ \A l \in At(calls, 124), t \in At(calls, 188) : t = l + 1
        /\ \A t \in At(calls, 188), c \in At(calls, 203) : c = t + 1
        /\ calls[Len(calls)].call = "send_keys"

(* a successful placement by split that also dispatched a command *)
C17_Witness ==
    /\ Placed
    /\ lastCall.ret
    /\ NamedCalls(calls, "split_window") # {}
    /\ At(calls, 203) # {}

(* C18: when the title or the command send_keys fails after the pane was    *)
(* created, the pane stays registered, the count stays incremented and      *)
(* create_pane does not return True as for a full success.                  *)
C18_PostCreationFailureReported ==
    (Placed /\ (Raised(calls, 188) \/ Raised(calls, 203))) =>
        /\ lastCall.host \in DOMAIN panes
        /\ current_window_pane_count >= 1
        /\ ~lastCall.ret

(* the manager and the server as they are now *)
Now == World(AllOutcomes, 0)

(* the synchronize-panes option of a window at server srv, "" while unset *)
SyncOf(srv, win) == IF win \in DOMAIN srv.sync THEN srv.sync[win] ELSE ""

FirstOf(S) == CHOOSE i \in S : \A j \in S : i <= j

SetCalls(cs) == NamedCalls(cs, "set-window-option")

AllOk(cs) == \A i \in 1..Len(cs) : cs[i].res = "ok"

(* C13: create_session after a close_session, the driver succeeding, gives  *)
(* the topology of a fresh session: one registered window, index 0, the     *)
(* session's only window with its one default pane, no pane registered and  *)
(* the count 0, whatever was registered before the close.                   *)
C13_Step ==
    (lastCall.op = "close_session" /\ lastCall'.op = "create_session") =>
        /\ session = NoHandle
        /\ lastCall'.ret
        /\ session' # NoHandle
        /\ session' = server'.session
        /\ DOMAIN windows' = {0}
        /\ windows'[0] = current_window'
        /\ server'.windows = Put(Empty, current_window', 1)
        /\ panes' = Empty
        /\ current_window_pane_count' = 0

C13_RoundTrip == [][C13_Step]_vars

(* a session of several windows and hosts was closed and created again *)
C13_Witness ==
    /\ lastCall.op = "create_session"
    /\ lastCall.ret
    /\ closed.windows >= 2
    /\ closed.panes >= 3
    /\ DOMAIN windows = {0}

(* C14: toggle_broadcast reads the option of the first registered window    *)
(* with several panes and of no other; when that reads "on" it sets "off"   *)
(* (disable), otherwise, also with no such window, it sets "on" (enable);   *)
(* when no call fails all windows with several panes end with one value.    *)
C14_Step ==
    (lastCall'.op = "toggle_broadcast" /\ session # NoHandle) =>
        LET mp    == MultiPane(Now)
            shows == NamedCalls(calls', "show-window-options")
            sets  == SetCalls(calls')
        IN /\ mp = {} => (shows = {} /\ \A k \in sets : calls'[k].arg = "on")
           /\ mp # {} =>
                LET first == windows[FirstOf(mp)]
                    on    == SyncOf(server, first) = "on"
                IN /\ shows = {1}
                   /\ calls'[1].win = first
                   /\ calls'[1].res = "ok" =>
                        /\ \A k \in sets : calls'[k].arg = (IF on THEN "off" ELSE "on")
                        /\ AllOk(calls') =>
                             /\ lastCall'.ret
                             /\ \A i \in mp :
                                   SyncOf(server', windows[i]) = (IF on THEN "off" ELSE "on")

C14_ToggleFirstSample == [][C14_Step]_vars

(* a toggle over three windows with several panes that sampled "on" and     *)
(* left all three off                                                       *)
C14_Witness ==
    /\ lastCall.op = "toggle_broadcast"
    /\ lastCall.ret
    /\ Cardinality(MultiPane(Now)) >= 3
    /\ calls[1].call = "show-window-options"
    /\ calls[1].arg = "on"
    /\ \A i \in MultiPane(Now) : SyncOf(server, windows[i]) = "off"

(* C15, as claimed: enable_broadcast sets the option on for exactly the     *)
(* registered windows with several panes, leaves every other window's       *)
(* option as it was, and returns True exactly when it has set a window.     *)
C15_Step ==
    (lastCall'.op = "enable_broadcast" /\ session # NoHandle) =>
        LET mp == MultiPane(Now)
        IN /\ \A i \in mp : SyncOf(server', windows[i]) = "on"
           /\ \A win \in DOMAIN server.windows :
                 win \notin {windows[i] : i \in mp} =>
                     SyncOf(server', win) = SyncOf(server, win)
           /\ lastCall'.ret <=> (\E k \in SetCalls(calls') : calls'[k].res = "ok")

C15_EnableSetsMultiPane == [][C15_Step]_vars

(* C15, amended: enable_broadcast sets the option on for the registered     *)
(* windows with several panes, in index order, and touches no other window; *)
(* when no call fails it has set all of them and returns True exactly when  *)
(* there was one; when a call fails it stops and returns False, the windows *)
(* set before staying on.                                                   *)
C15_AmendedStep ==
    (lastCall'.op = "enable_broadcast" /\ session # NoHandle) =>
        LET mp  == MultiPane(Now)
            set == {calls'[k].win : k \in {j \in SetCalls(calls') : calls'[j].res = "ok"}}
        IN /\ \A k \in 1..Len(calls') :
                 /\ calls'[k].call = "set-window-option"
                 /\ calls'[k].arg = "on"
                 /\ calls'[k].win \in {windows[i] : i \in mp}
                 /\ \A i \in mp : windows[i] = calls'[k].win =>
                       Cardinality({j \in mp : j < i}) = k - 1
           /\ \A win \in DOMAIN server.windows :
                 SyncOf(server', win) = (IF win \in set THEN "on" ELSE SyncOf(server, win))
           /\ AllOk(calls') =>
                 /\ set = {windows[i] : i \in mp}
                 /\ lastCall'.ret <=> (mp # {})
           /\ ~AllOk(calls') => ~lastCall'.ret

C15_EnableInOrder == [][C15_AmendedStep]_vars

(* enable_broadcast has set two windows and passed over a window of one     *)
(* pane, whose option is not on                                             *)
C15_Witness ==
    /\ lastCall.op = "enable_broadcast"
    /\ lastCall.ret
    /\ Cardinality(MultiPane(Now)) >= 2
    /\ Len(calls) = Cardinality(MultiPane(Now))
    /\ \E i \in DOMAIN windows \ MultiPane(Now) : SyncOf(server, windows[i]) # "on"

(* C16: with no registered window of several panes, enable_broadcast,       *)
(* disable_broadcast and toggle_broadcast return False and set no option.   *)
C16_NoMultiPaneNoOp ==
    (/\ lastCall.op \in {"enable_broadcast", "disable_broadcast", "toggle_broadcast"}
     /\ MultiPane(Now) = {}) =>
        /\ ~lastCall.ret
        /\ SetCalls(calls) = {}

(* the hosts of a list *)
Range(q) == {q[i] : i \in 1..Len(q)}

(* C19: connect_to_hosts attempts the hosts one by one in the order given,  *)
(* going on after a failed placement; once the session exists every host is *)
(* attempted exactly once, and the call returns success exactly when every  *)
(* host ended up placed.                                                    *)
C19_BatchContinues ==
    /\ Len(connector.attempted) <= Len(connector.hosts)
    /\ connector.attempted = SubSeq(connector.hosts, 1, Len(connector.attempted))
    /\ (connector.pc = "place" /\ lastCall.op = "create_pane") =>
            lastCall.host = connector.attempted[Len(connector.attempted)]
    /\ (connector.pc \in {"broadcast", "done"} /\ connector.created) =>
            connector.attempted = connector.hosts
    /\ connector.pc = "done" =>
            (connector.result <=> \A h \in Range(connector.hosts) : h \in DOMAIN panes)

(* a batch of three whose first host failed and whose last host was placed *)
C19_Witness ==
    /\ connector.pc = "done"
    /\ Len(connector.hosts) = 3
    /\ connector.attempted = connector.hosts
    /\ connector.hosts[1] \notin DOMAIN panes
    /\ connector.hosts[3] \in DOMAIN panes
    /\ ~connector.result

LastPane(cs) ==
    LET made == {i \in PaneCalls(cs) : cs[i].res = "ok"}
        last == CHOOSE i \in made : \A j \in made : j <= i
    IN <<cs[last].win, cs[last].pane>>

(* C22: a successful create_pane for a host key that is already registered  *)
(* keeps one entry for the key, now the pane this call obtained; its title  *)
(* and command go to that pane and the pane count of the window it went to  *)
(* grows by one; right after a successful placement of the same key the new *)
(* pane is another one than the pane registered before.                     *)
C22_Step ==
    (/\ lastCall'.op = "create_pane"
     /\ lastCall'.ret
     /\ lastCall'.host \in DOMAIN panes) =>
        LET h == lastCall'.host
        IN /\ DOMAIN panes' = DOMAIN panes
           /\ \A g \in DOMAIN panes \ {h} : panes'[g] = panes[g]
           /\ \E i \in PaneCalls(calls') : calls'[i].res = "ok"
           /\ panes'[h] = LastPane(calls')
           /\ At(calls', 188) # {}
           /\ \A k \in NamedCalls(calls', "send_keys") :
                 <<calls'[k].win, calls'[k].pane>> = panes'[h]
           /\ current_window_pane_count' =
                 (IF current_window' = current_window
                  THEN current_window_pane_count + 1 ELSE 1)
           /\ (/\ lastCall.op = "create_pane"
               /\ lastCall.ret
               /\ lastCall.host = h) => panes'[h] # panes[h]

C22_DuplicateHostKey == [][C22_Step]_vars

(* a host was placed again by a split of the window it is already in, and   *)
(* its command went to the new pane                                         *)
C22_Witness ==
    /\ Placed
    /\ lastCall.ret
    /\ Succeeded(calls, 105)
    /\ At(calls, 203) # {}
    /\ panes[lastCall.host] = LastPane(calls)
    /\ panes[lastCall.host][2] >= 1

(* C24: every split of lines 105 and 112, the first attempt and the retry   *)
(* after the resize, is made in a window whose tracked pane count k is at   *)
(* least 1 and is vertical when k is even, horizontal when k is odd.        *)
C24_Step ==
    lastCall'.op = "create_pane" =>
        \A i \in At(calls', 105) \cup At(calls', 112) :
            /\ calls'[i].call = "split_window"
            /\ calls'[i].win = current_window
            /\ current_window_pane_count >= 1
            /\ calls'[i].arg = (IF current_window_pane_count % 2 = 0
                                THEN "vertical" ELSE "horizontal")

C24_SplitParity == [][C24_Step]_vars

(* a window counted at two panes was split vertically, at the first attempt *)
(* and at the retry after the resize                                        *)
C24_Witness ==
    /\ Placed
    /\ \E i \in At(calls, 105) : calls[i].arg = "vertical"
    /\ \E i \in At(calls, 112) : calls[i].arg = "vertical"

(* C26: a create_pane call issues, whatever the driver does, at most three  *)
(* splits (lines 105, 112, 118, once each), at most one resize and at most  *)
(* two new_window commands (lines 89 and 116), and opens at most two        *)
(* windows, the default window of a session it creates included.            *)
C26_BoundedFallback ==
    Placed =>
        /\ Cardinality(NamedCalls(calls, "split_window")) <= 3
        /\ NamedCalls(calls, "split_window") =
              At(calls, 105) \cup At(calls, 112) \cup At(calls, 118)
        /\ \A site \in {105, 112, 118} : Cardinality(At(calls, site)) <= 1
        /\ Cardinality(NamedCalls(calls, "resize_window")) <= 1
        /\ Cardinality(NamedCalls(calls, "new_window")) <= 2
        /\ Cardinality(NamedCalls(calls, "new_window")
                       \cup NamedCalls(calls, "new_session")) <= 2

(* the whole chain: new_window gave nothing, three splits, one resize and a *)
(* second new_window                                                        *)
C26_Witness ==
    /\ Placed
    /\ Cardinality(NamedCalls(calls, "split_window")) = 3
    /\ Cardinality(NamedCalls(calls, "resize_window")) = 1
    /\ Cardinality(NamedCalls(calls, "new_window")) = 2
    /\ NotOk(calls, 118)

(* the manager as __init__ leaves it (lines 14-28) *)
FreshManager ==
    /\ session = NoHandle
    /\ current_window = NoHandle
    /\ windows = Empty
    /\ panes = Empty
    /\ current_window_pane_count = 0

(* C27: on a fresh manager create_session calls new_session exactly when    *)
(* has_session has answered false; whenever it returns True, one window is  *)
(* registered, under index 0, it is the session's active window and the     *)
(* manager's active window, and the pane count is 0.                        *)
C27_Step ==
    (lastCall'.op = "create_session" /\ FreshManager) =>
        /\ NamedCalls(calls', "new_session") # {} <=>
              (Succeeded(calls', 36) /\ server.session = NoHandle)
        /\ NamedCalls(calls', "sessions.get") # {} <=>
              (Succeeded(calls', 36) /\ server.session # NoHandle)
        /\ lastCall'.ret =>
              /\ session' # NoHandle
              /\ DOMAIN windows' = {0}
              /\ windows'[0] = server'.attached
              /\ current_window' = windows'[0]
              /\ current_window_pane_count' = 0

C27_CreateBranches == [][C27_Step]_vars

(* C30: when a driver call of create_session fails on a fresh manager, each *)
(* driver call was attempted at most once, create_session returns False and *)
(* the manager holds no session, no active window and no window.            *)
C30_Step ==
    (lastCall'.op = "create_session" /\ FreshManager /\ ~AllOk(calls')) =>
        /\ \A name \in {"has_session", "sessions.get", "new_session", "attached_window"} :
              Cardinality(NamedCalls(calls', name)) <= 1
        /\ ~lastCall'.ret
        /\ session' = NoHandle
        /\ current_window' = NoHandle
        /\ windows' = Empty

C30_FailedCreateLeavesNothing == [][C30_Step]_vars

(* the splits N placements over W windows are claimed to have cost *)
SplitsIssued(N, W) == IF N = 0 THEN 0 ELSE N - W

(* C25: without failures a placement into a window whose tracked count is 0 *)
(* (the initial window, or the window opened by this call because the       *)
(* active one was full) issues no split and no resize and binds the host to *)
(* a pane the window already had; every other placement issues one split;   *)
(* so the splits add up to N - W after N placements over W windows.         *)
C25_Step ==
    lastCall'.op = "create_pane" =>
        LET h       == lastCall'.host
            splits  == NamedCalls(calls', "split_window")
            resizes == NamedCalls(calls', "resize_window")
            first   == \/ current_window_pane_count = 0
                       \/ current_window_pane_count >= max_panes_per_window
            had     == IF current_window' \in DOMAIN server.windows
                       THEN server.windows[current_window'] ELSE 1
        IN /\ lastCall'.ret
           /\ first =>
                /\ splits = {}
                /\ resizes = {}
                /\ current_window_pane_count' = 1
                /\ server'.windows[current_window'] = had
                /\ \E i \in At(calls', 98) :
                      /\ calls'[i].win = current_window'
                      /\ calls'[i].pane < had
                      /\ panes'[h] = <<calls'[i].win, calls'[i].pane>>
           /\ ~first =>
                /\ Cardinality(splits) = 1
                /\ At(calls', 98) = {}
                /\ server'.windows[current_window'] = had + 1
           /\ Cardinality(splits) =
                 SplitsIssued(Cardinality(DOMAIN panes'), Cardinality(DOMAIN windows'))
                 - SplitsIssued(Cardinality(DOMAIN panes), Cardinality(DOMAIN windows))

C25_FirstPaneReused == [][C25_Step]_vars

(* the fifth host went, without a split, into the default pane of the third *)
(* window, opened because the second was full                               *)
C25_Witness ==
    /\ Placed
    /\ Cardinality(DOMAIN panes) = 5
    /\ Cardinality(DOMAIN windows) = 3
    /\ NamedCalls(calls, "new_window") # {}
    /\ NamedCalls(calls, "split_window") = {}
    /\ \E i \in At(calls, 98) : panes[lastCall.host] = <<calls[i].win, calls[i].pane>>

(* the windows the manager has registered *)
Registered == {windows[i] : i \in DOMAIN windows}

(* C21: every pane registered in the pane map is a pane of a window that is *)
(* registered in the windows map.                                           *)
C21_PanesInRegisteredWindows ==
    \A h \in DOMAIN panes : panes[h][1] \in Registered

(* C28: create_window without a session fails without a driver call; in    *)
(* every case it leaves the active window, the windows map and the pane     *)
(* count as they were; when it returns True it has issued one new_window,   *)
(* named after the host, and no split, the server has one window more, of   *)
(* one pane, and the host key is registered for that pane and no other key  *)
(* is; the capacity and the pane count play no part.                        *)
C28_Step ==
    lastCall'.op = "create_window" =>
        LET h    == lastCall'.host
            made == NamedCalls(calls', "new_window")
        IN /\ session = NoHandle =>
                /\ ~lastCall'.ret
                /\ calls' = <<>>
                /\ server' = server
                /\ panes' = panes
           /\ UNCHANGED <<session, current_window, windows,
                          current_window_pane_count, max_panes_per_window>>
           /\ Cardinality(made) <= 1
           /\ NamedCalls(calls', "split_window") = {}
           /\ lastCall'.ret =>
                \E i \in made :
                    LET id == calls'[i].win
                    IN /\ calls'[i].res = "ok"
                       /\ calls'[i].arg = "hostname"
                       /\ id \notin DOMAIN server.windows
                       /\ server'.windows = Put(server.windows, id, 1)
                       /\ panes' = Put(panes, h, <<id, 0>>)
                       /\ {g \in DOMAIN panes' : panes'[g][1] = id} = {h}

C28_WindowMode == [][C28_Step]_vars

(* a window was opened for a host while the active window was full, and     *)
(* the command went to its pane                                             *)
C28_Witness ==
    /\ lastCall.op = "create_window"
    /\ lastCall.ret
    /\ current_window_pane_count >= max_panes_per_window
    /\ Cardinality(DOMAIN windows) >= 2
    /\ panes[lastCall.host][1] \notin Registered
    /\ At(calls, 170) # {}

(* no window of the session has synchronize-panes on *)
AllOff == \A win \in DOMAIN server.windows : SyncOf(server, win) # "on"

(* C23: a broadcast toggle, by TmuxManager.toggle_broadcast or by the       *)
(* session manager's action_toggle_broadcast, of a session all of whose     *)
(* windows are off turns broadcast on when no driver call fails: every      *)
(* registered window of several panes, and for the session manager every    *)
(* window of the session, is on afterwards, whatever was toggled before.    *)
C23_Step ==
    (/\ server.session # NoHandle
     /\ AllOff
     /\ AllOk(calls')) =>
        /\ (lastCall'.op = "toggle_broadcast" /\ session # NoHandle) =>
               \A i \in MultiPane(Now) : SyncOf(server', windows[i]) = "on"
        /\ lastCall'.op = "action_toggle_broadcast" =>
               \A win \in DOMAIN server.windows : SyncOf(server', win) = "on"

C23_BroadcastNotCached == [][C23_Step]_vars

(* C29: two create_pane calls that are serialized never leave the pane      *)
(* count of the active window above the capacity (calls that interleave do) *)
C29_SerializedKeepsCapacity ==
    threads.serialized => current_window_pane_count <= max_panes_per_window

(* interleaved calls: the count exceeds the capacity without any failure of *)
(* the driver                                                               *)
C29_InterleavedBreaksCapacity ==
    /\ ~threads.serialized
    /\ server.faults = 0
    /\ \A i \in {1, 2} : threads.t[i].pc = "idle" /\ threads.t[i].left = 0
    /\ lastCall.ret
    /\ current_window_pane_count > max_panes_per_window

(* the panes of window win that a host key is bound to *)
BoundPanes(win) == {panes[h] : h \in HostsIn(win)}

(* the panes the server holds in window win *)
DriverPanes(win) == IF win \in DOMAIN server.windows THEN server.windows[win] ELSE 0

(* C31: in a session the manager created, after every create_pane call the  *)
(* tracked pane count of the active window is the number of panes of that   *)
(* window bound to a host, every pane the server holds there beyond the     *)
(* default one is counted, and the server holds at most capacity panes      *)
(* there, whatever the driver did.                                          *)
C31_CountMatchesDriver ==
    (Placed /\ current_window # NoHandle) =>
        /\ current_window_pane_count = Cardinality(BoundPanes(current_window))
        /\ DriverPanes(current_window) <=
              (IF current_window_pane_count = 0 THEN 1 ELSE current_window_pane_count)
        /\ DriverPanes(current_window) <= max_panes_per_window

(* C32: create_pane returns True exactly when it has bound the host key to  *)
(* the pane it obtained and the count of the active window is one more than *)
(* that window's count before (1 when the call made another window the      *)
(* active one); when it returns False the pane map is as before the call.   *)
C32_Step ==
    lastCall'.op = "create_pane" =>
        LET h      == lastCall'.host
            gotOne == \E i \in PaneCalls(calls') : calls'[i].res = "ok"
            bound  == /\ gotOne
                      /\ h \in DOMAIN panes'
                      /\ panes'[h] = LastPane(calls')
            counted == current_window_pane_count' =
                          (IF current_window' = current_window
                           THEN current_window_pane_count + 1 ELSE 1)
        IN /\ lastCall'.ret <=> (bound /\ counted)
           /\ lastCall'.ret =>
                 /\ DOMAIN panes' = DOMAIN panes \cup {h}
                 /\ \A g \in DOMAIN panes \ {h} : panes'[g] = panes[g]
                 /\ panes'[h][1] = current_window'
           /\ ~lastCall'.ret => panes' = panes

C32_ResultAndStateAgree == [][C32_Step]_vars

(* a placement failed after its split had succeeded: the host is not bound  *)
C32_Witness ==
    /\ Placed
    /\ ~lastCall.ret
    /\ Succeeded(calls, 105)
    /\ Raised(calls, 124)
    /\ lastCall.host \notin DOMAIN panes
    /\ DOMAIN panes # {}

(* the synchronize-panes option of a window is in effect: unset means off *)
IsOn(srv, win) == SyncOf(srv, win) = "on"

(* C33: after a toggle_broadcast that returned True with no call failing,   *)
(* all registered windows of several panes have one synchronize value; a    *)
(* second toggle_broadcast right after a first one, no call failing in      *)
(* either, leaves each of them at the value the first one sampled, which is *)
(* the original value of all of them when they agreed.                      *)
C33_Step ==
    (/\ lastCall'.op = "toggle_broadcast"
     /\ lastCall'.ret
     /\ AllOk(calls')) =>
        LET mp == MultiPane(Now)
        IN /\ \A i, j \in mp :
                 SyncOf(server', windows[i]) = SyncOf(server', windows[j])
           /\ (/\ lastCall.op = "toggle_broadcast"
               /\ lastCall.ret
               /\ AllOk(calls)) =>
                 /\ calls[1].call = "show-window-options"
                 /\ \A i \in mp : IsOn(server', windows[i]) = (calls[1].arg = "on")

C33_DoubleToggle == [][C33_Step]_vars

(* two windows of several panes that a toggle has turned on again after it  *)
(* had read "off"                                                           *)
C33_Witness ==
    /\ lastCall.op = "toggle_broadcast"
    /\ lastCall.ret
    /\ AllOk(calls)
    /\ Cardinality(MultiPane(Now)) >= 2
    /\ calls[1].call = "show-window-options"
    /\ calls[1].arg = "off"
    /\ \A i \in MultiPane(Now) : IsOn(server, windows[i])

(* the windows the manager has registered, in the next state *)
RegisteredNext == {windows'[i] : i \in DOMAIN windows'}

(* the windows opened by create_window: no placement fails in SpecScope, so *)
(* a pane bound in an unregistered window was stored by create_window       *)
WindowModeWindows ==
    ({panes[h][1] : h \in DOMAIN panes} \cap DOMAIN server.windows) \ Registered

(* C34: enable_broadcast, disable_broadcast and toggle_broadcast read and   *)
(* set the synchronize option of registered windows only and leave the      *)
(* option of every other window of the server as it was; the window a       *)
(* create_window call opens is not registered by it, nor by any later       *)
(* operation.                                                               *)
C34_Step ==
    /\ lastCall'.op \in {"enable_broadcast", "disable_broadcast", "toggle_broadcast"} =>
          /\ \A k \in 1..Len(calls') :
                /\ calls'[k].call \in {"set-window-option", "show-window-options"}
                /\ calls'[k].win \in Registered
          /\ \A win \in DOMAIN server.windows \ Registered :
                SyncOf(server', win) = SyncOf(server, win)
          /\ windows' = windows
    /\ (lastCall'.op = "create_window" /\ lastCall'.ret) =>
          /\ panes'[lastCall'.host][1] \notin RegisteredNext
          /\ RegisteredNext = Registered
    /\ \A win \in WindowModeWindows : win \notin RegisteredNext

C34_BroadcastScope == [][C34_Step]_vars

(* the highest index of the windows map *)
TopIndex == CHOOSE i \in DOMAIN windows : \A j \in DOMAIN windows : j <= i

(* C35: whenever the active-window pointer is set, that window is           *)
(* registered in the windows map under the highest registered index, and    *)
(* no driver window is registered under two indices.                        *)
C35_ActiveRegisteredUnique ==
    /\ current_window # NoHandle =>
          /\ DOMAIN windows # {}
          /\ windows[TopIndex] = current_window
    /\ \A i, j \in DOMAIN windows : windows[i] = windows[j] => i = j

(* the calls of the last method call, by name *)
CallNames(cs) == [k \in 1..Len(cs) |-> cs[k].call]

(* C36: attach_to_session without a session issues no call at all (no key   *)
(* binding, no terminal, no instructions); with a session it issues the     *)
(* bind-key call first and then exactly one more call: the terminal launch  *)
(* when auto_attach is true, the printed attach command when it is false.   *)
C36_Step ==
    lastCall'.op = "attach_to_session" =>
        /\ session = NoHandle => calls' = <<>>
        /\ session # NoHandle =>
              CallNames(calls') = <<"bind-key",
                                    IF lastCall'.host = 1 THEN "Popen" ELSE "print">>
        /\ UNCHANGED <<session, current_window, windows, panes,
                       current_window_pane_count>>

C36_AttachNeedsSession == [][C36_Step]_vars

(* a session with a host placed was attached with auto_attach: the key was  *)
(* bound and the terminal launched, nothing printed                         *)
C36_Witness ==
    /\ lastCall.op = "attach_to_session"
    /\ lastCall.host = 1
    /\ session # NoHandle
    /\ DOMAIN panes # {}
    /\ AllOk(calls)
    /\ CallNames(calls) = <<"bind-key", "Popen">>

(* the calls attach_to_session issues *)
AttachCalls(cs) == {k \in 1..Len(cs) : cs[k].call \in {"bind-key", "Popen", "print"}}

(* C37: tui_mode attaches exactly when connect_to_hosts returned success.   *)
(* After a failure it returns 1 and issues no call: the session is neither  *)
(* attached nor closed, the manager and the server keep the session and     *)
(* the panes that were placed.                                              *)
C37_Step ==
    /\ (lastCall'.op = "tui_mode" /\ connector.pc = "done") =>
          IF connector.result
          THEN /\ CallNames(calls') = <<"bind-key", "Popen">>
               /\ lastCall'.host = 0
          ELSE /\ calls' = <<>>
               /\ lastCall'.host = 1
               /\ UNCHANGED <<session, current_window, windows, panes,
                              current_window_pane_count, server>>
    /\ AttachCalls(calls') # {} =>
          /\ connector.pc = "done"
          /\ connector.result
          /\ session # NoHandle
    /\ (connector.pc = "done" /\ connector'.pc # "done") => lastCall'.op = "tui_mode"

C37_AttachIffConnected == [][C37_Step]_vars

(* tui_mode has returned 1 after a batch in which one host was placed and   *)
(* another was not: the session is alive at the server and was not attached *)
C37_Witness ==
    /\ connector.pc = "exit"
    /\ lastCall.op = "tui_mode"
    /\ lastCall.host = 1
    /\ session # NoHandle
    /\ server.session = session
    /\ DOMAIN panes # {}
    /\ \E h \in Range(connector.hosts) : h \notin DOMAIN panes
    /\ calls = <<>>

(* every entry of the loaded inventories, in load order *)
AllEntries == Collected(provider.inventories, 1)

(* the (name, ip) pair of a host *)
Pair(h) == <<h.name, h.ip>>

(* C38: get_hosts returns a Host for every hostvars entry that has an       *)
(* ansible_host value and leaves out exactly the entries without one.       *)
C38_SkippedIndividually ==
    provider.pc = "returned" =>
        {Pair(h) : h \in Range(provider.hosts)}
            = {Pair(h) : h \in Range(AllEntries) \ {NoHost}}

(* the first position of a pair in a list of hosts *)
FirstPosition(hosts, p) ==
    CHOOSE i \in 1..Len(hosts) :
        /\ Pair(hosts[i]) = p
        /\ \A j \in 1..(i - 1) : Pair(hosts[j]) # p

(* C39: when every entry has an address, the list get_hosts returns holds   *)
(* every (name, ip) pair of the inventories once, the host kept for a pair  *)
(* is its first occurrence in load order, and the kept hosts are in the     *)
(* order of their first occurrences.                                        *)
C39_FirstOccurrenceKept ==
    (provider.pc = "returned" /\ NoHost \notin Range(AllEntries)) =>
        LET hosts == provider.hosts
        IN /\ \A i, j \in 1..Len(hosts) : Pair(hosts[i]) = Pair(hosts[j]) => i = j
           /\ {Pair(h) : h \in Range(hosts)} = {Pair(h) : h \in Range(AllEntries)}
           /\ \A i \in 1..Len(hosts) :
                 hosts[i] = AllEntries[FirstPosition(AllEntries, Pair(hosts[i]))]
           /\ \A i, j \in 1..Len(hosts) :
                 i < j => FirstPosition(AllEntries, Pair(hosts[i]))
                              < FirstPosition(AllEntries, Pair(hosts[j]))

(* the position of a host in a list of distinct hosts *)
PositionIn(hosts, h) == CHOOSE i \in 1..Len(hosts) : hosts[i] = h

(* C40: action_connect_selected without a selection changes nothing and     *)
(* does not exit; with a selection the selector exits with exactly the      *)
(* loaded hosts whose names are selected, hidden by the filter or not, in   *)
(* the order of the loaded list; toggling the same row twice gives the      *)
(* selection back.                                                          *)
C40_Step ==
    /\ lastCall'.op = "action_connect_selected" =>
          IF selector.selected_hosts = {}
          THEN /\ selector'.selected_hosts = {}
               /\ selector'.hosts = selector.hosts
               /\ ~selector'.exited
               /\ selector'.result = <<>>
          ELSE /\ selector'.exited
               /\ Range(selector'.result)
                     = {h \in Range(selector.hosts) : h.name \in selector.selected_hosts}
               /\ \A i, j \in 1..Len(selector'.result) :
                     i < j => PositionIn(selector.hosts, selector'.result[i])
                                  < PositionIn(selector.hosts, selector'.result[j])
    /\ (lastCall.op = "action_toggle_select" /\ lastCall'.op = "action_toggle_select"
            /\ lastCall.host = lastCall'.host) =>
          selector'.selected_hosts = selector.previous

C40_SelectionHandOff == [][C40_Step]_vars

(* with the filter hiding one of two selected hosts, Enter has handed over  *)
(* both, in the order of the loaded list                                    *)
C40_Witness ==
    /\ lastCall.op = "action_connect_selected"
    /\ selector.exited
    /\ selector.search_filter # <<>>
    /\ Len(selector.result) = 2
    /\ selector.result = selector.hosts
    /\ \E h \in Range(selector.result) : h \notin Range(selector.filtered_hosts)
    /\ \E h \in Range(selector.result) : h \in Range(selector.filtered_hosts)

====
